---- MODULE Spec2Model ----
(***************************************************************************)
(* fakelib: a fake music library generated from one golden MP3.            *)
(*                                                                         *)
(* The sources hold two generations of package library:                    *)
(*   - src/library/library.go: Library with TracksPerAlbum,                *)
(*     AlbumsPerArtist and MinPathLength fields (letterName, name,         *)
(*     attrsAt, PathAt, SongAt, New);                                      *)
(*   - src/unnamed/part_001 (lines 213-431): Library with pluggable        *)
(*     Tagger and Pather (letterName, RepeatedLetters.name,                *)
(*     RepeatedLetters.Tag, ArtistAlbumTitle, PathAt, SongAt, New).        *)
(* Definitions of the first keep the source names; definitions of the      *)
(* second carry the prefix RL_ where the names would clash.                *)
(*                                                                         *)
(* A Go string or []byte is a sequence of one-character strings.           *)
(* A call that can panic returns a record with a panic flag.               *)
(***************************************************************************)
EXTENDS Integers, Sequences, FiniteSets, TLC

\* ---------------------------------------------------------------- bounds
\* Largest ordinal handed to the name encoders (703 = "AAB").
MaxOrdinal == 704
\* Largest track count set on a library besides the default of New.
MaxTracks == 28
\* Largest tracks-per-album and albums-per-artist set on a library.
MaxTracksPerAlbum == 3
MaxAlbumsPerArtist == 2
\* Largest MinPathLength (library.go) and MinComponentLength (part_001).
MaxMinPathLength == 4
MaxMinComponentLength == 2
\* Largest ordinal handed to the padded name functions (52 is "BA").
MaxPadOrdinal == 60
\* Calls of nextInodeID each goroutine makes.
MaxIdCalls == 2
\* Tracks of the library the goroutines call concurrently.
MaxConcTracks == 2
\* Longest golden source handed to New, and largest header size parsed.
MaxGoldenLen == 3
MaxHeaderSize == 4
\* Longest tag header, golden payload and read buffer of the songs read.
MaxTagLen == 2
MaxDataLen == 2
MaxBufLen == 3

VARIABLES
    ord,      \* the ordinal handed to the name encoders
    enc,      \* what the two encoders returned for ord
    pkg,      \* the generation of package library in use
    lib,      \* the *Library
    pc,       \* "new" after New, "set" once the caller has assigned its fields
    call,     \* the last PathAt or SongAt call: its name and index
    ret,      \* what that call returned
    node,     \* a song node of the filesystem: the Song it holds
    dest,     \* the destination buffer of a read
    off,      \* the offset of a read
    rd,       \* the outcome of the read
    attr,     \* the AttrOut of Getattr
    root,     \* the *root of a mount: its inodes, children and identifier counter
    mnt,      \* where root.OnAdd stands: its loop index and the identifiers issued
    pad,      \* two ordinals, a minimum length, and the padded names returned
    gold,     \* the golden io.ReadSeeker handed to New, and what New returned
    conc,     \* goroutines calling PathAt, SongAt, Size and Read, and the heap
    ids       \* goroutines calling root.nextInodeID, the Once and the counter

vars == <<ord, enc, pkg, lib, pc, call, ret, node, dest, off, rd, attr,
          root, mnt, pad, gold, conc, ids>>
nameVars == <<ord, enc>>
libVars == <<pkg, lib, pc, call, ret>>
fsVars == <<node, dest, off, rd, attr>>
mntVars == <<root, mnt>>
extVars == <<pad, gold, conc, ids>>

\* ------------------------------------------------------------ text helpers
Min(a, b) == IF a < b THEN a ELSE b
Max(a, b) == IF a > b THEN a ELSE b

\* var letters = "ABCDEFGHIJKLMNOPQRSTUVWXYZ"; letters[k] in Go is letters[k+1] here.
letters == << "A", "B", "C", "D", "E", "F", "G", "H", "I", "J", "K", "L", "M",
              "N", "O", "P", "Q", "R", "S", "T", "U", "V", "W", "X", "Y", "Z" >>

\* Reversal in place of a byte slice (the swap loop of the later letterName).
RECURSIVE Reverse(_)
Reverse(s) == IF s = << >> THEN << >> ELSE Append(Reverse(Tail(s)), Head(s))

\* strings.Repeat(s, count): panics on a negative count.
RECURSIVE RepeatN(_, _)
RepeatN(s, count) == IF count <= 0 THEN << >> ELSE s \o RepeatN(s, count - 1)

Repeat(s, count) ==
    IF count < 0 THEN [panic |-> TRUE, s |-> << >>]
    ELSE [panic |-> FALSE, s |-> RepeatN(s, count)]

\* ------------------------------------------- letterName, src/library/library.go
\* for ; i > 0; i /= len(letters) { letter := i % len(letters);
\*                                  name = append(name, letters[letter-1]) }
\* letters[letter-1] panics (index out of range [-1]) when letter = 0.
RECURSIVE letterNameLoop(_, _)
letterNameLoop(i, nm) ==
    IF i > 0
    THEN LET letter == i % Len(letters) IN
         IF letter - 1 < 0 \/ letter - 1 >= Len(letters)
         THEN [panic |-> TRUE, s |-> nm]
         ELSE letterNameLoop(i \div Len(letters), Append(nm, letters[(letter - 1) + 1]))
    ELSE [panic |-> FALSE, s |-> nm]

letterName(i) == letterNameLoop(i + 1, << >>)

\* ---------------------------------------- letterName, src/unnamed/part_001
\* for { name = append(name, letters[i%26]); i /= 26; if i == 0 {break}; i-- }
\* followed by the reversal of name.
RECURSIVE RL_letterNameLoop(_, _)
RL_letterNameLoop(i, nm) ==
    IF i % Len(letters) < 0 \/ i < 0
    THEN [panic |-> TRUE, s |-> nm]
    ELSE LET nm2 == Append(nm, letters[(i % Len(letters)) + 1])
             q   == i \div Len(letters)
         IN  IF q = 0 THEN [panic |-> FALSE, s |-> nm2]
             ELSE RL_letterNameLoop(q - 1, nm2)

RL_letterName(i) ==
    LET r == RL_letterNameLoop(i, << >>) IN
    IF r.panic THEN r ELSE [panic |-> FALSE, s |-> Reverse(r.s)]

\* ------------------------------------------------------ Go arithmetic
\* Go's / and % truncate toward zero; b # 0.
GoDiv(a, b) ==
    IF (a >= 0) = (b > 0) THEN (IF a >= 0 THEN a ELSE -a) \div (IF b >= 0 THEN b ELSE -b)
    ELSE -((IF a >= 0 THEN a ELSE -a) \div (IF b >= 0 THEN b ELSE -b))
GoMod(a, b) == a - b * GoDiv(a, b)

digits == << "0", "1", "2", "3", "4", "5", "6", "7", "8", "9" >>

\* strconv.Itoa
RECURSIVE ItoaNat(_)
ItoaNat(n) == IF n < 10 THEN << digits[n + 1] >>
              ELSE Append(ItoaNat(n \div 10), digits[(n % 10) + 1])
Itoa(n) == IF n < 0 THEN << "-" >> \o ItoaNat(-n) ELSE ItoaNat(n)

\* path.Join(elems...): empty elements are dropped, the rest joined with "/".
\* path.Clean leaves the joined elements as they are: no element of this model
\* holds "/" or ".".
RECURSIVE pathJoin(_)
pathJoin(elems) ==
    IF elems = << >> THEN << >>
    ELSE LET rest == pathJoin(Tail(elems)) IN
         IF Head(elems) = << >> THEN rest
         ELSE IF rest = << >> THEN Head(elems)
         ELSE Head(elems) \o << "/" >> \o rest

Mp3Ext == << ".", "m", "p", "3" >>

\* ------------------------------------------------------------ id3v2 tags
\* A tag is the sequence of its text frames, in the order they were set.
\* The frame identifiers of t.SetArtist, t.SetAlbum, t.SetTitle and of
\* t.CommonID("Track number/Position in set").
TPE1 == << "T", "P", "E", "1" >>
TALB == << "T", "A", "L", "B" >>
TIT2 == << "T", "I", "T", "2" >>
TRCK == << "T", "R", "C", "K" >>

NewEmptyTag == << >>
Frame(id, text) == [id |-> id, text |-> text]

\* tag.Artist(), tag.Album(), tag.Title(), tag.GetTextFrame(id).Text:
\* the text of the frame id, empty when the tag has none.
GetText(tag, id) ==
    IF \E k \in 1..Len(tag) : tag[k].id = id
    THEN tag[CHOOSE k \in 1..Len(tag) : tag[k].id = id].text
    ELSE << >>

\* tag.WriteTo(&buf): the header bytes. The binary layout belongs to the id3v2
\* package; here a header is the magic "ID3" followed, per frame, by the four
\* identifier bytes, the text and a terminating NUL. A tag without frames
\* writes nothing.
RECURSIVE EncodeFrames(_)
EncodeFrames(tag) ==
    IF tag = << >> THEN << >>
    ELSE Head(tag).id \o Head(tag).text \o << "NUL" >> \o EncodeFrames(Tail(tag))

EncodeTag(tag) ==
    IF tag = << >> THEN << >> ELSE << "I", "D", "3" >> \o EncodeFrames(tag)

\* id3v2.ParseReader on header bytes (songInfo of the tests): the frames back.
RECURSIVE TextUpToNul(_)
TextUpToNul(b) ==
    IF b = << >> \/ Head(b) = "NUL" THEN << >> ELSE << Head(b) >> \o TextUpToNul(Tail(b))

RECURSIVE ParseFrames(_)
ParseFrames(b) ==
    IF Len(b) < 5 THEN << >>
    ELSE LET text == TextUpToNul(SubSeq(b, 5, Len(b))) IN
         << Frame(SubSeq(b, 1, 4), text) >>
            \o ParseFrames(SubSeq(b, 5 + Len(text) + 1, Len(b)))

ParseTag(b) ==
    IF Len(b) >= 3 /\ SubSeq(b, 1, 3) = << "I", "D", "3" >>
    THEN ParseFrames(SubSeq(b, 4, Len(b)))
    ELSE << >>

\* type Song struct { tag []byte; data []byte }
Song(tag, data) == [tag |-> tag, data |-> data]
ZeroSong == Song(<< >>, << >>)

\* Size with the tag header left out.
SizeWithoutTag(s) == Len(s.data)

\* func (s Song) Size() int64
Size(s) == Len(s.tag) + Len(s.data)

\* ------------------------------------------ results of PathAt and SongAt
\* kind: "ok" (nil error), "error" (the out-of-range error) or "panic".
\* tag: the frames of the tag the call built or obtained; from: the Tagger
\* invocation that returned that tag (NoOrigin when no Tagger was invoked).
NoWhy == "-"
NoOrigin == [fn |-> "-", idx |-> 0]
Ok(path, song, tag, from) ==
    [kind |-> "ok", why |-> NoWhy, path |-> path, song |-> song, tag |-> tag,
     from |-> from]
OutOfRange(idx, tracks) ==
    [kind |-> "error", why |-> "index out of range [0, Tracks)",
     path |-> << >>, song |-> ZeroSong, tag |-> NewEmptyTag, from |-> NoOrigin]
Panicked(why) ==
    [kind |-> "panic", why |-> why, path |-> << >>, song |-> ZeroSong,
     tag |-> NewEmptyTag, from |-> NoOrigin]

IndexPanic == "runtime error: index out of range"
DividePanic == "runtime error: integer divide by zero"
RepeatPanic == "strings: negative Repeat count"
SanitizePanic == "index should be sanitized before attrsAt is called"

\* ------------------------------------------ Library, src/library/library.go
\* name with the division by 3 rounded down.
nameRoundedDown(l, i) ==
    LET minLength == IF l.MinPathLength = 0 THEN 3 ELSE l.MinPathLength
        extension == GoDiv(minLength, 3)
        ln        == letterName(i)
    IN  IF ln.panic THEN [panic |-> TRUE, why |-> IndexPanic, s |-> << >>]
        ELSE IF Repeat(ln.s, extension).panic
        THEN [panic |-> TRUE, why |-> RepeatPanic, s |-> << >>]
        ELSE [panic |-> FALSE, why |-> NoWhy, s |-> Repeat(ln.s, extension).s]

\* func (l *Library) name(i int) string
name(l, i) ==
    LET minLength == IF l.MinPathLength = 0 THEN 3 ELSE l.MinPathLength
        extension == IF GoMod(minLength, 3) # 0 THEN GoDiv(minLength, 3) + 1
                     ELSE GoDiv(minLength, 3)
        ln        == letterName(i)
    IN  IF ln.panic THEN [panic |-> TRUE, why |-> IndexPanic, s |-> << >>]
        ELSE IF Repeat(ln.s, extension).panic
        THEN [panic |-> TRUE, why |-> RepeatPanic, s |-> << >>]
        ELSE [panic |-> FALSE, why |-> NoWhy, s |-> Repeat(ln.s, extension).s]

NoAttrs(why) ==
    [panic |-> TRUE, why |-> why, artist |-> << >>, album |-> << >>,
     name |-> << >>, track |-> 0]

\* func (l *Library) attrsAt(idx int) (artist, album, name string, track int)
attrsAt(l, idx) ==
    IF idx < 0 \/ idx > (l.Tracks - 1) THEN NoAttrs(SanitizePanic)
    ELSE IF l.TracksPerAlbum * l.AlbumsPerArtist = 0 THEN NoAttrs(DividePanic)
    ELSE LET artistIdx == GoDiv(idx, l.TracksPerAlbum * l.AlbumsPerArtist)
             albumIdx  == GoMod(GoDiv(idx, l.TracksPerAlbum), l.AlbumsPerArtist)
             trackIdx  == GoMod(idx, l.TracksPerAlbum)
             artist    == name(l, artistIdx)
             album     == name(l, albumIdx)
             nm        == name(l, trackIdx)
         IN  IF artist.panic THEN NoAttrs(artist.why)
             ELSE IF album.panic THEN NoAttrs(album.why)
             ELSE IF nm.panic THEN NoAttrs(nm.why)
             ELSE [panic |-> FALSE, why |-> NoWhy, artist |-> artist.s,
                   album |-> album.s, name |-> nm.s, track |-> trackIdx + 1]

\* PathAt with the upper bound of the index check off by one (idx > l.Tracks).
PathAtOffByOne(l, idx) ==
    IF idx < 0 \/ idx > l.Tracks THEN OutOfRange(idx, l.Tracks)
    ELSE LET a == attrsAt(l, idx) IN
         IF a.panic THEN Panicked(a.why)
         ELSE Ok(pathJoin(<< a.artist, a.album, a.name >>) \o Mp3Ext, ZeroSong,
                 NewEmptyTag, NoOrigin)

\* func (l *Library) PathAt(idx int) (string, error)
PathAt(l, idx) ==
    IF idx < 0 \/ idx > (l.Tracks - 1) THEN OutOfRange(idx, l.Tracks)
    ELSE LET a == attrsAt(l, idx) IN
         IF a.panic THEN Panicked(a.why)
         ELSE Ok(pathJoin(<< a.artist, a.album, a.name >>) \o Mp3Ext, ZeroSong,
                 NewEmptyTag, NoOrigin)

\* The tag SongAt builds: artist, album, "artist - album - name", track number.
SongTag(a) ==
    << Frame(TPE1, a.artist),
       Frame(TALB, a.album),
       Frame(TIT2, a.artist \o << " ", "-", " " >> \o a.album \o << " ", "-", " " >> \o a.name),
       Frame(TRCK, Itoa(a.track)) >>

\* func (l *Library) SongAt(idx int) (Song, error)
SongAt(l, idx) ==
    IF idx < 0 \/ idx > (l.Tracks - 1) THEN OutOfRange(idx, l.Tracks)
    ELSE LET a == attrsAt(l, idx) IN
         IF a.panic THEN Panicked(a.why)
         ELSE Ok(<< >>, Song(EncodeTag(SongTag(a)), l.golden), SongTag(a), NoOrigin)

\* func New(golden io.ReadSeeker) (*Library, error), with data the bytes that
\* follow the golden file's id3v2 header.
New(data) ==
    [Tracks |-> 1000, TracksPerAlbum |-> 10, AlbumsPerArtist |-> 3,
     MinPathLength |-> 3, golden |-> data]

\* ------------------------------------------- Library, src/unnamed/part_001
\* name that pads with the first letter up to the minimum length, not with
\* whole repetitions.
RL_namePadded(a, i) ==
    LET minLength == IF a.MinComponentLength = 0 THEN 1 ELSE a.MinComponentLength
        ln        == RL_letterName(i)
    IN  IF ln.panic THEN [panic |-> TRUE, why |-> IndexPanic, s |-> << >>]
        ELSE [panic |-> FALSE, why |-> NoWhy,
              s |-> [k \in 1..(Max(minLength, Len(ln.s)) - Len(ln.s)) |-> ln.s[1]] \o ln.s]

\* func (a RepeatedLetters) name(i int) string
RL_name(a, i) ==
    LET minLength == IF a.MinComponentLength = 0 THEN 1 ELSE a.MinComponentLength
        ln        == RL_letterName(i)
    IN  IF ln.panic THEN [panic |-> TRUE, why |-> IndexPanic, s |-> << >>]
        ELSE IF Repeat(ln.s, minLength).panic
        THEN [panic |-> TRUE, why |-> RepeatPanic, s |-> << >>]
        ELSE [panic |-> FALSE, why |-> NoWhy, s |-> Repeat(ln.s, minLength).s]

NoTag(why) == [panic |-> TRUE, why |-> why, frames |-> NewEmptyTag, from |-> NoOrigin]
TagOf(frames, fn, idx) ==
    [panic |-> FALSE, why |-> NoWhy, frames |-> frames, from |-> [fn |-> fn, idx |-> idx]]

\* Tag with the album taken as idx % AlbumsPerArtist, the division by
\* TracksPerAlbum forgotten.
RL_TagAlbumSlip(a, idx) ==
    IF a.TracksPerAlbum * a.AlbumsPerArtist = 0 THEN NoTag(DividePanic)
    ELSE LET artist   == RL_name(a, GoDiv(idx, a.TracksPerAlbum * a.AlbumsPerArtist))
             album    == RL_name(a, GoMod(idx, a.AlbumsPerArtist))
             trackIdx == GoMod(idx, a.TracksPerAlbum)
             track    == trackIdx + 1
             nm       == RL_name(a, trackIdx)
         IN  IF artist.panic THEN NoTag(artist.why)
             ELSE IF album.panic THEN NoTag(album.why)
             ELSE IF nm.panic THEN NoTag(nm.why)
             ELSE TagOf(<< Frame(TPE1, artist.s), Frame(TALB, album.s),
                           Frame(TIT2, nm.s), Frame(TRCK, Itoa(track)) >>,
                        a.fn, idx)

\* func (a RepeatedLetters) Tag(idx int) *id3v2.Tag
RL_Tag(a, idx) ==
    IF a.TracksPerAlbum * a.AlbumsPerArtist = 0 THEN NoTag(DividePanic)
    ELSE LET artist   == RL_name(a, GoDiv(idx, a.TracksPerAlbum * a.AlbumsPerArtist))
             album    == RL_name(a, GoMod(GoDiv(idx, a.TracksPerAlbum), a.AlbumsPerArtist))
             trackIdx == GoMod(idx, a.TracksPerAlbum)
             track    == trackIdx + 1
             nm       == RL_name(a, trackIdx)
         IN  IF artist.panic THEN NoTag(artist.why)
             ELSE IF album.panic THEN NoTag(album.why)
             ELSE IF nm.panic THEN NoTag(nm.why)
             ELSE TagOf(<< Frame(TPE1, artist.s), Frame(TALB, album.s),
                           Frame(TIT2, nm.s), Frame(TRCK, Itoa(track)) >>,
                        a.fn, idx)

\* func ArtistAlbumTitle(index int, tag *id3v2.Tag) string
ArtistAlbumTitle(index, tag) ==
    LET artist == GetText(tag, TPE1)
        album  == GetText(tag, TALB)
        title  == GetText(tag, TIT2)
    IN  pathJoin(<< artist, album, title >>) \o Mp3Ext

\* The tagger of RepeatedLetters{TracksPerAlbum, AlbumsPerArtist,
\* MinComponentLength}.Tag as a TagFunc value.
RepeatedLetters(tpa, apa, mcl) ==
    [fn |-> "RepeatedLetters.Tag", TracksPerAlbum |-> tpa, AlbumsPerArtist |-> apa,
     MinComponentLength |-> mcl]

\* Substituted taggers: tagF of TestCustomTagger (a fresh tag with fixed
\* artist, album and title), the tagger of TestCustomPather (always the one
\* empty tag wantTag), and a tagger whose title is the decimal index.
CustomTagger(fn) ==
    [fn |-> fn, TracksPerAlbum |-> 0, AlbumsPerArtist |-> 0, MinComponentLength |-> 0]

CustomArtist == << "C", "u", "s", "t", "o", "m", " ", "A", "r", "t", "i", "s", "t" >>
CustomAlbum  == << "C", "u", "s", "t", "o", "m", " ", "A", "l", "b", "u", "m" >>
CustomTitle  == << "C", "u", "s", "t", "o", "m", " ", "T", "i", "t", "l", "e" >>

\* type TagFunc func(index int) *id3v2.Tag, applied
Tagger(tg, idx) ==
    CASE tg.fn = "RepeatedLetters.Tag" -> RL_Tag(tg, idx)
      [] tg.fn = "tagF" ->
            TagOf(<< Frame(TPE1, CustomArtist), Frame(TALB, CustomAlbum),
                     Frame(TIT2, CustomTitle) >>, tg.fn, idx)
      [] tg.fn = "wantTag" -> TagOf(NewEmptyTag, tg.fn, idx)
      [] OTHER -> TagOf(<< Frame(TIT2, Itoa(idx)) >>, tg.fn, idx)

\* type PathFunc func(index int, tag *id3v2.Tag) string, applied: the default
\* ArtistAlbumTitle, the pather of TestCustomPather (always "abc.mp3"), and a
\* pather that joins the decimal index and the title.
Pather(pf, index, tag) ==
    CASE pf = "ArtistAlbumTitle" -> ArtistAlbumTitle(index, tag)
      [] pf = "abc" -> << "a", "b", "c" >> \o Mp3Ext
      [] OTHER -> Itoa(index) \o << "-" >> \o GetText(tag, TIT2) \o Mp3Ext

\* PathAt that tags with the default tagger of New whatever l.Tagger is.
RL_PathAtDefaultTagger(l, idx) ==
    IF idx < 0 \/ idx > (l.Tracks - 1) THEN OutOfRange(idx, l.Tracks)
    ELSE LET t == RL_Tag(RepeatedLetters(10, 3, 0), idx) IN
         IF t.panic THEN Panicked(t.why)
         ELSE Ok(Pather(l.Pather, idx, t.frames), ZeroSong, t.frames, t.from)

\* func (l *Library) PathAt(idx int) (string, error)
RL_PathAt(l, idx) ==
    IF idx < 0 \/ idx > (l.Tracks - 1) THEN OutOfRange(idx, l.Tracks)
    ELSE LET t == Tagger(l.Tagger, idx) IN
         IF t.panic THEN Panicked(t.why)
         ELSE Ok(Pather(l.Pather, idx, t.frames), ZeroSong, t.frames, t.from)

\* func (l *Library) SongAt(idx int) (Song, error)
RL_SongAt(l, idx) ==
    IF idx < 0 \/ idx > (l.Tracks - 1) THEN OutOfRange(idx, l.Tracks)
    ELSE LET tag == Tagger(l.Tagger, idx) IN
         IF tag.panic THEN Panicked(tag.why)
         ELSE Ok(<< >>, Song(EncodeTag(tag.frames), l.golden), tag.frames, tag.from)

\* func New(golden io.ReadSeeker) (*Library, error)
RL_New(data) ==
    [Tracks |-> 1000, Tagger |-> RepeatedLetters(10, 3, 0),
     Pather |-> "ArtistAlbumTitle", golden |-> data]

\* ------------------------------------------------------------ Song.Read
\* copy(dst, src): the first min(len(dst), len(src)) bytes of src over dst.
Copy(dst, src) ==
    LET n == Min(Len(dst), Len(src)) IN
    [n |-> n, dst |-> SubSeq(src, 1, n) \o SubSeq(dst, n + 1, Len(dst))]

\* s[from:] panics unless 0 <= from <= len(s).
SliceFrom(s, from) ==
    IF from < 0 \/ from > Len(s) THEN [panic |-> TRUE, s |-> << >>]
    ELSE [panic |-> FALSE, s |-> SubSeq(s, from + 1, Len(s))]

SlicePanic == "runtime error: slice bounds out of range"

\* Read with the offset not reset to 0 once the header bytes are copied: the
\* payload is then read from s.data[off:].
ReadWithoutReset(s, buf, o) ==
    IF o >= Len(s.tag) + Len(s.data) THEN [panic |-> FALSE, why |-> NoWhy, buf |-> buf]
    ELSE IF o < Len(s.tag)
    THEN IF SliceFrom(s.tag, o).panic \/ SliceFrom(s.data, o).panic
         THEN [panic |-> TRUE, why |-> SlicePanic, buf |-> buf]
         ELSE LET first == Copy(buf, SliceFrom(s.tag, o).s)
                  rest  == SubSeq(first.dst, first.n + 1, Len(buf))
                  snd   == Copy(rest, SliceFrom(s.data, o).s)
              IN  [panic |-> FALSE, why |-> NoWhy,
                   buf |-> SubSeq(first.dst, 1, first.n) \o snd.dst]
    ELSE IF SliceFrom(s.data, o - Len(s.tag)).panic
         THEN [panic |-> TRUE, why |-> SlicePanic, buf |-> buf]
         ELSE [panic |-> FALSE, why |-> NoWhy,
               buf |-> Copy(buf, SliceFrom(s.data, o - Len(s.tag)).s).dst]

\* func (s Song) Read(buf []byte, off int64): the buffer after the call.
Read(s, buf, o) ==
    IF o >= Size(s) THEN [panic |-> FALSE, why |-> NoWhy, buf |-> buf]
    ELSE IF o < Len(s.tag)
    THEN IF SliceFrom(s.tag, o).panic
         THEN [panic |-> TRUE, why |-> SlicePanic, buf |-> buf]
         ELSE LET first == Copy(buf, SliceFrom(s.tag, o).s)
                  rest  == SubSeq(first.dst, first.n + 1, Len(buf))
                  snd   == Copy(rest, SliceFrom(s.data, 0).s)
              IN  [panic |-> FALSE, why |-> NoWhy,
                   buf |-> SubSeq(first.dst, 1, first.n) \o snd.dst]
    ELSE IF SliceFrom(s.data, o - Len(s.tag)).panic
         THEN [panic |-> TRUE, why |-> SlicePanic, buf |-> buf]
         ELSE [panic |-> FALSE, why |-> NoWhy,
               buf |-> Copy(buf, SliceFrom(s.data, o - Len(s.tag)).s).dst]

\* ------------------------------------------------ the name encoders alone
NoEnc == [called |-> FALSE,
          old |-> [panic |-> FALSE, s |-> << >>],
          new |-> [panic |-> FALSE, s |-> << >>]]

NoCall == [op |-> "-", idx |-> 0]
NoRet == [kind |-> "-", why |-> NoWhy, path |-> << >>, song |-> ZeroSong,
          tag |-> NewEmptyTag, from |-> NoOrigin]

\* The golden payload of the libraries: two bytes of audio data.
GoldenSet == { << "g", "h" >> }

NoRead == [called |-> FALSE, panic |-> FALSE, why |-> NoWhy, result |-> << >>]
NoAttr == [set |-> FALSE, Size |-> 0]

\* No mount, no padded names, no golden source, no goroutines.
NoRoot == [inodes |-> << >>, children |-> { }, nextInodeInit |-> FALSE,
           nextInodeIDRaw |-> 0]
NoMount == [pc |-> "-", i |-> 0, why |-> NoWhy]
NoPad == [called |-> FALSE]
NoGold == [called |-> FALSE]
NoConc == [on |-> FALSE]
NoIds == [on |-> FALSE]

NameInit ==
    /\ ord \in 0..MaxOrdinal
    /\ enc = NoEnc
    /\ pkg = "-" /\ lib = New(<< >>) /\ pc = "-" /\ call = NoCall /\ ret = NoRet
    /\ node = [song |-> ZeroSong] /\ dest = << >> /\ off = 0
    /\ rd = NoRead /\ attr = NoAttr
    /\ root = NoRoot /\ mnt = NoMount
    /\ pad = NoPad /\ gold = NoGold /\ conc = NoConc /\ ids = NoIds

\* TestLetterName: got := letterName(test.idx), for either generation.
CallLetterName ==
    /\ ~enc.called
    /\ enc' = [called |-> TRUE, old |-> letterName(ord), new |-> RL_letterName(ord)]
    /\ UNCHANGED <<mntVars, extVars, ord, libVars, fsVars>>

NameNext == CallLetterName

NameSpec == NameInit /\ [][NameNext]_vars

\* ------------------------------------------------- the library in use
\* The indices of libraryTests, which TestPathAt and TestSongAt hand to
\* PathAt and SongAt of the library New returns.
NamedIdx == { 0, 1, 2, 10, 11, 30, 31, 40, 26 * 3 * 10, (26 * 3 * 10) + 1 }
\* Further indices of that library of 1000 tracks: the last and the first
\* past it, and those around the artists of ordinal 24, 25, 26 and 27
\* (750 = 25 * 3 * 10, 810 = 27 * 3 * 10).
EdgeIdx == { 749, 750, 779, 810, 999, 1000 }
\* The indices handed to PathAt and SongAt: these, and every index of the
\* small libraries, one below and up to two above.
CallIdx == (-1 .. (MaxTracks + 1)) \cup NamedIdx \cup EdgeIdx
\* Of these, the indices up to one past the end of the library in use.
CallIdxOfLib == { i \in CallIdx : i <= lib.Tracks + 1 }

\* Track counts the caller sets.
TrackCounts == { 0, 1, MaxTracks }

Init ==
    /\ ord = 0 /\ enc = NoEnc
    /\ pkg \in { "library.go", "part_001" }
    /\ \E data \in GoldenSet :
         lib = IF pkg = "library.go" THEN New(data) ELSE RL_New(data)
    /\ pc = "new"
    /\ call = NoCall
    /\ ret = NoRet
    /\ node = [song |-> ZeroSong] /\ dest = << >> /\ off = 0
    /\ rd = NoRead /\ attr = NoAttr
    /\ root = NoRoot /\ mnt = NoMount
    /\ pad = NoPad /\ gold = NoGold /\ conc = NoConc /\ ids = NoIds

\* An unrecovered panic ends the process.
Running == ret.kind # "panic"

\* main (fakelib.go:26-44): the flags are assigned to the library's fields
\* before the library is used; --min_path_length below 3 is refused.
SetFlags(librarySize, tracksPerAlbum, albumsPerArtist, minPathLength) ==
    /\ pkg = "library.go" /\ pc = "new" /\ call = NoCall
    /\ ~(minPathLength < 3)
    /\ lib' = [lib EXCEPT !.Tracks = librarySize,
                          !.TracksPerAlbum = tracksPerAlbum,
                          !.AlbumsPerArtist = albumsPerArtist,
                          !.MinPathLength = minPathLength]
    /\ pc' = "set"
    /\ UNCHANGED <<mntVars, extVars, nameVars, fsVars, pkg, call, ret>>

PathAtCall(idx) ==
    /\ pkg = "library.go" /\ Running
    /\ call' = [op |-> "PathAt", idx |-> idx]
    /\ ret' = PathAt(lib, idx)
    /\ UNCHANGED <<mntVars, extVars, nameVars, fsVars, pkg, lib, pc>>

SongAtCall(idx) ==
    /\ pkg = "library.go" /\ Running
    /\ call' = [op |-> "SongAt", idx |-> idx]
    /\ ret' = SongAt(lib, idx)
    /\ UNCHANGED <<mntVars, extVars, nameVars, fsVars, pkg, lib, pc>>

\* The caller of part_001 assigns Tracks, Tagger and Pather (lib.Tracks =
\* 20_000 in part_003:91, lib.Tagger = tagF and lib.Pather = ... in
\* library_test.go:223-257).
RL_SetFields(tracks, tagger, pather) ==
    /\ pkg = "part_001" /\ pc = "new" /\ call = NoCall
    /\ lib' = [lib EXCEPT !.Tracks = tracks, !.Tagger = tagger, !.Pather = pather]
    /\ pc' = "set"
    /\ UNCHANGED <<mntVars, extVars, nameVars, fsVars, pkg, call, ret>>

RL_PathAtCall(idx) ==
    /\ pkg = "part_001" /\ Running
    /\ call' = [op |-> "PathAt", idx |-> idx]
    /\ ret' = RL_PathAt(lib, idx)
    /\ UNCHANGED <<mntVars, extVars, nameVars, fsVars, pkg, lib, pc>>

RL_SongAtCall(idx) ==
    /\ pkg = "part_001" /\ Running
    /\ call' = [op |-> "SongAt", idx |-> idx]
    /\ ret' = RL_SongAt(lib, idx)
    /\ UNCHANGED <<mntVars, extVars, nameVars, fsVars, pkg, lib, pc>>

Taggers ==
    { RepeatedLetters(tpa, apa, mcl) :
        tpa \in 1..MaxTracksPerAlbum, apa \in 1..MaxAlbumsPerArtist,
        mcl \in 0..MaxMinComponentLength }
    \cup { CustomTagger(fn) : fn \in { "tagF", "wantTag", "indexTag" } }

Pathers == { "ArtistAlbumTitle", "abc", "indexTitle" }

Next ==
    \/ \E n \in TrackCounts, tpa \in 1..MaxTracksPerAlbum,
         apa \in 1..MaxAlbumsPerArtist, mpl \in 3..MaxMinPathLength :
         SetFlags(n, tpa, apa, mpl)
    \/ \E idx \in CallIdxOfLib : PathAtCall(idx)
    \/ \E idx \in CallIdxOfLib : SongAtCall(idx)
    \/ \E n \in TrackCounts, tg \in Taggers, pf \in Pathers : RL_SetFields(n, tg, pf)
    \/ \E idx \in CallIdxOfLib : RL_PathAtCall(idx)
    \/ \E idx \in CallIdxOfLib : RL_SongAtCall(idx)

Spec == Init /\ [][Next]_vars

\* --------------------------------------------------- reading a song node
TagBytes == { "t", "u" }
DataBytes == { "d", "e" }
\* What a fresh destination buffer holds.
Fill == "x"

SeqsUpTo(S, n) == UNION { [1..k -> S] : k \in 0..n }

ReadInit ==
    /\ ord = 0 /\ enc = NoEnc
    /\ pkg = "-" /\ lib = New(<< >>) /\ pc = "-" /\ call = NoCall /\ ret = NoRet
    /\ \E tag \in SeqsUpTo(TagBytes, MaxTagLen), data \in SeqsUpTo(DataBytes, MaxDataLen) :
         node = [song |-> Song(tag, data)]
    /\ \E n \in 0..MaxBufLen : dest = [k \in 1..n |-> Fill]
    /\ off \in -1..(MaxTagLen + MaxDataLen + 1)
    /\ rd = NoRead
    /\ attr = NoAttr
    /\ root = NoRoot /\ mnt = NoMount
    /\ pad = NoPad /\ gold = NoGold /\ conc = NoConc /\ ids = NoIds

\* func (s *song) Read(_, _, dest []byte, off int64) (fuse.ReadResult, syscall.Errno):
\* s.song.Read(dest, off) fills dest, and fuse.ReadResultData(dest) is returned.
song_Read ==
    /\ ~rd.called /\ ~rd.panic
    /\ LET r == Read(node.song, dest, off) IN
         /\ dest' = r.buf
         /\ rd' = [called |-> TRUE, panic |-> r.panic, why |-> r.why,
                   result |-> IF r.panic THEN << >> ELSE r.buf]
    /\ UNCHANGED <<mntVars, extVars, nameVars, libVars, node, off, attr>>

\* func (s *song) Getattr(_, _, out *fuse.AttrOut) syscall.Errno
song_Getattr ==
    /\ ~attr.set /\ ~rd.panic
    /\ attr' = [set |-> TRUE, Size |-> Size(node.song)]
    /\ UNCHANGED <<mntVars, extVars, nameVars, libVars, node, dest, off, rd>>

ReadNext == song_Read \/ song_Getattr

ReadSpec == ReadInit /\ [][ReadNext]_vars

\* ------------------------------------------------------- shortlex order
\* Position of a letter in A-Z, 0-based.
LetterIndex(c) == (CHOOSE k \in 1..Len(letters) : letters[k] = c) - 1

IsLetterString(s) ==
    /\ Len(s) >= 1
    /\ \A k \in 1..Len(s) : \E j \in 1..Len(letters) : letters[j] = s[k]

RECURSIVE Pow(_, _)
Pow(b, n) == IF n = 0 THEN 1 ELSE b * Pow(b, n - 1)

\* Value of s read as a base-26 numeral with A = 0, most significant first.
RECURSIVE Base26Value(_)
Base26Value(s) ==
    IF s = << >> THEN 0
    ELSE LetterIndex(s[Len(s)]) + Len(letters) * Base26Value(SubSeq(s, 1, Len(s) - 1))

\* Number of shorter non-empty strings over A-Z.
RECURSIVE ShorterStrings(_)
ShorterStrings(n) == IF n <= 1 THEN 0 ELSE Pow(Len(letters), n - 1) + ShorterStrings(n - 1)

\* 0-based position of s in the shortlex enumeration A, B, ..., Z, AA, AB, ...
ShortlexRank(s) == ShorterStrings(Len(s)) + Base26Value(s)

\* s comes strictly before t: shorter, or of equal length and smaller at the
\* first position where they differ.
ShortlexLess(s, t) ==
    \/ Len(s) < Len(t)
    \/ /\ Len(s) = Len(t)
       /\ \E k \in 1..Len(s) :
            /\ \A j \in 1..(k - 1) : s[j] = t[j]
            /\ LetterIndex(s[k]) < LetterIndex(t[k])

\* The encodings TestLetterName expects (library_test.go:185-193).
TestLetterNameTable ==
    { <<0, <<"A">>>>, <<25, <<"Z">>>>, <<26, <<"A", "A">>>>, <<27, <<"A", "B">>>>,
      <<26 + 25, <<"A", "Z">>>>, <<26 + (26 * 25), <<"Z", "A">>>>,
      <<26 + (26 * 25) + 25, <<"Z", "Z">>>>, <<26 + (26 * 26), <<"A", "A", "A">>>>,
      <<26 + (26 * 26) + 1, <<"A", "A", "B">>>> }

\* r is the result of an encoder for ordinal i and nxt its result for i + 1:
\* r is the i-th shortlex string, agrees with the test table, and precedes nxt.
IsShortlexEncoding(i, r, nxt) ==
    /\ ~r.panic
    /\ IsLetterString(r.s)
    /\ ShortlexRank(r.s) = i
    /\ \A t \in TestLetterNameTable : t[1] = i => r.s = t[2]
    /\ ~nxt.panic /\ IsLetterString(nxt.s) /\ ShortlexLess(r.s, nxt.s)

\* C1 (as claimed, for letterName of src/library/library.go): for every i >= 0,
\* letterName(i) is the i-th string of the shortlex enumeration of the non-empty
\* strings over A-Z, takes the values of TestLetterName, and strictly precedes
\* letterName(i+1).
C1_LetterNameShortlex ==
    enc.called => IsShortlexEncoding(ord, enc.old, letterName(ord + 1))

\* The same statement for letterName of src/unnamed/part_001, which holds.
RL_LetterNameShortlex ==
    enc.called => IsShortlexEncoding(ord, enc.new, RL_letterName(ord + 1))

\* The later generation is called on a three-letter ordinal.
RL_LetterNameShortlexSeen ==
    enc.called /\ ord = 26 + (26 * 26) + 1 /\ enc.new.s = <<"A", "A", "B">>
\* ------------------------------------------- what a call is expected to give
\* The library in use has the default tag and path functions.
DefaultFunctions ==
    \/ pkg = "library.go"
    \/ pkg = "part_001" /\ lib.Tagger.fn = "RepeatedLetters.Tag"
                        /\ lib.Pather = "ArtistAlbumTitle"

ShapeT == IF pkg = "library.go" THEN lib.TracksPerAlbum ELSE lib.Tagger.TracksPerAlbum
ShapeA == IF pkg = "library.go" THEN lib.AlbumsPerArtist ELSE lib.Tagger.AlbumsPerArtist

\* Whole repetitions of a name: ceil(MinPathLength / 3) with 0 read as 3, or
\* MinComponentLength with 0 read as 1.
ShapeR ==
    IF pkg = "library.go"
    THEN ((IF lib.MinPathLength = 0 THEN 3 ELSE lib.MinPathLength) + 2) \div 3
    ELSE (IF lib.Tagger.MinComponentLength = 0 THEN 1 ELSE lib.Tagger.MinComponentLength)

\* s is the i-th shortlex string written r times over.
IsNameOf(s, i, r) ==
    /\ r >= 1 /\ Len(s) >= r /\ Len(s) % r = 0
    /\ LET u == SubSeq(s, 1, Len(s) \div r) IN
         /\ IsLetterString(u)
         /\ ShortlexRank(u) = i
         /\ \A k \in 1..Len(s) : s[k] = u[((k - 1) % Len(u)) + 1]

\* The number a string of decimal digits denotes (-1 for anything else).
RECURSIVE DecimalValue(_)
DecimalValue(s) ==
    IF s = << >> THEN -1
    ELSE IF ~(\E d \in 1..10 : digits[d] = s[Len(s)]) THEN -1
    ELSE LET d == (CHOOSE k \in 1..10 : digits[k] = s[Len(s)]) - 1 IN
         IF Len(s) = 1 THEN d
         ELSE IF DecimalValue(SubSeq(s, 1, Len(s) - 1)) < 0 THEN -1
         ELSE 10 * DecimalValue(SubSeq(s, 1, Len(s) - 1)) + d

InRange(idx) == 0 <= idx /\ idx < lib.Tracks

\* PathAt and SongAt of the generation in use.
LibPathAt(idx) == IF pkg = "library.go" THEN PathAt(lib, idx) ELSE RL_PathAt(lib, idx)
LibSongAt(idx) == IF pkg = "library.go" THEN SongAt(lib, idx) ELSE RL_SongAt(lib, idx)

\* The header of song carries artist, album, title and track number of index
\* idx for the shape in use.
CarriesFields(song, idx) ==
    LET f == ParseTag(song.tag) IN
    /\ IsNameOf(GetText(f, TPE1), idx \div (ShapeT * ShapeA), ShapeR)
    /\ IsNameOf(GetText(f, TALB), (idx \div ShapeT) % ShapeA, ShapeR)
    /\ IsNameOf(GetText(f, TIT2), idx % ShapeT, ShapeR)
    /\ DecimalValue(GetText(f, TRCK)) = (idx % ShapeT) + 1

\* The cases spelled out for TracksPerAlbum = 10, AlbumsPerArtist = 3:
\* <<idx, artist, album, title, track>>, an empty entry standing for "not stated".
ShapeTable ==
    { << 0,   <<"A">>,      <<"A">>, <<"A">>, <<"1">> >>,
      << 1,   << >>,        << >>,   <<"B">>, <<"2">> >>,
      << 10,  << >>,        <<"B">>, <<"A">>, <<"1">> >>,
      << 30,  <<"B">>,      << >>,   << >>,   << >> >>,
      << 780, <<"A", "A">>, << >>,   << >>,   << >> >> }

AgreesWithTable(song, idx) ==
    LET f == ParseTag(song.tag) IN
    \A t \in ShapeTable :
        (t[1] = idx /\ ShapeT = 10 /\ ShapeA = 3 /\ ShapeR = 1) =>
            /\ t[2] # << >> => GetText(f, TPE1) = t[2]
            /\ t[3] # << >> => GetText(f, TALB) = t[3]
            /\ t[4] # << >> => GetText(f, TIT2) = t[4]
            /\ t[5] # << >> => GetText(f, TRCK) = t[5]

SongAtFieldsHold ==
    (call.op = "SongAt" /\ InRange(call.idx) /\ DefaultFunctions) =>
        /\ ret.kind = "ok"
        /\ CarriesFields(ret.song, call.idx)
        /\ AgreesWithTable(ret.song, call.idx)

\* C2 (as claimed): for every index in range and every shape T >= 1, A >= 1 the
\* tag of SongAt(idx) carries artist = name(idx div (T*A)), album =
\* name((idx div T) mod A), title = name(idx mod T) and track (idx mod T) + 1.
C2_SongAtCarriesFields == SongAtFieldsHold

\* The same statement for the generation of part_001 alone, which holds.
RL_SongAtCarriesFields == pkg = "part_001" => SongAtFieldsHold
\* artist + "/" + album + "/" + title + ".mp3" over the tag fields that
\* SongAt encodes for idx.
PathOfSongFields(idx) ==
    LET f == ParseTag(LibSongAt(idx).song.tag) IN
    GetText(f, TPE1) \o << "/" >> \o GetText(f, TALB) \o << "/" >> \o GetText(f, TIT2)
        \o << ".", "m", "p", "3" >>

\* The paths spelled out for TracksPerAlbum = 10, AlbumsPerArtist = 3.
PathTable ==
    { << 0,   << "A", "/", "A", "/", "A", ".", "m", "p", "3" >> >>,
      << 780, << "A", "A", "/", "A", "/", "A", ".", "m", "p", "3" >> >> }

PathAtJoinsFields ==
    (call.op = "PathAt" /\ InRange(call.idx) /\ DefaultFunctions) =>
        /\ ret.kind = "ok"
        /\ LibSongAt(call.idx).kind = "ok"
        /\ ret.path = PathOfSongFields(call.idx)
        /\ \A t \in PathTable :
             (t[1] = call.idx /\ ShapeT = 10 /\ ShapeA = 3 /\ ShapeR = 1) => ret.path = t[2]

\* C3 (as claimed): for every index in range PathAt(idx) with the default
\* functions is artist/album/title.mp3 over exactly the tag fields SongAt(idx)
\* encodes; PathAt(0) = "A/A/A.mp3" and PathAt(780) = "AA/A/A.mp3" for the
\* default shape.
C3_PathAtJoinsSongFields == PathAtJoinsFields

\* The same statement for the generation of part_001 alone, which holds.
RL_PathAtJoinsSongFields == pkg = "part_001" => PathAtJoinsFields

\* The (artist, album, title) triple of index j: what attrsAt returns
\* (library.go), the fields of the tag of the Tagger (part_001).
Triple(j) ==
    IF pkg = "library.go"
    THEN << attrsAt(lib, j).artist, attrsAt(lib, j).album, attrsAt(lib, j).name >>
    ELSE << GetText(Tagger(lib.Tagger, j).frames, TPE1),
            GetText(Tagger(lib.Tagger, j).frames, TALB),
            GetText(Tagger(lib.Tagger, j).frames, TIT2) >>

\* C4: with the default tag and path functions no index in range other than
\* the one PathAt was called with yields the path it returned, nor the same
\* (artist, album, title) triple.
C4_PathAtInjective ==
    (call.op = "PathAt" /\ ret.kind = "ok" /\ DefaultFunctions) =>
        \A j \in 0..(lib.Tracks - 1) :
            (j # call.idx /\ LibPathAt(j).kind = "ok") =>
                /\ LibPathAt(j).path # ret.path
                /\ Triple(j) # Triple(call.idx)

\* PathAt returned a two-letter artist in a library whose other indices
\* include one-letter artists, for each generation.
C4_Witness ==
    /\ call.op = "PathAt" /\ ret.kind = "ok" /\ DefaultFunctions
    /\ pkg = "part_001"
    /\ lib.Tracks = MaxTracks /\ ShapeT = 1 /\ ShapeA = 1 /\ call.idx = 26
    /\ ret.path = << "A", "A", "/", "A", "/", "A", ".", "m", "p", "3" >>
    /\ LibPathAt(0).kind = "ok"

\* C5: PathAt and SongAt return the out-of-range error, with an empty path
\* and the zero Song, exactly when idx < 0 or idx >= Tracks; and a call that
\* fails leaves the library as it was, so that every index answers as before.
C5_ErrorIffOutOfRange ==
    call.op # "-" =>
        /\ (ret.kind = "error") <=> (call.idx < 0 \/ call.idx >= lib.Tracks)
        /\ ret.kind = "error" => (ret.path = << >> /\ ret.song = ZeroSong)

C5_FailedCallChangesNothing ==
    [][ (call' # call \/ ret' # ret) /\ ret'.kind = "error" =>
            /\ lib' = lib /\ pkg' = pkg /\ pc' = pc
            /\ InRange(0) =>
                 (IF pkg' = "library.go" THEN PathAt(lib', 0) ELSE RL_PathAt(lib', 0))
                     = LibPathAt(0) ]_vars

C5_OutOfRange == []C5_ErrorIffOutOfRange /\ C5_FailedCallChangesNothing

\* PathAt(Tracks) failed on a library whose last index then answered.
C5_Witness ==
    /\ call.op = "PathAt" /\ call.idx = lib.Tracks /\ ret.kind = "error"
    /\ lib.Tracks = MaxTracks
    /\ LibPathAt(lib.Tracks - 1).kind = "ok"

\* C6 (as claimed): for every index in range, and for Tracks - 1 of the
\* default library, PathAt and SongAt return a result, without error or panic.
C6_InRangeNeverPanics ==
    (call.op # "-" /\ InRange(call.idx) /\ DefaultFunctions) => ret.kind = "ok"

\* The panic of attrsAt's own index check is not reachable through PathAt and
\* SongAt (this part of C6 holds).
C6_SanitizePanicUnreachable == ret.why # SanitizePanic
\* ---------------------------------------------------------- song reads
\* Bytes a read of a buffer of length n at offset o delivers from a stream of
\* length total.
Delivered(n, o, total) == Min(n, Max(0, total - o))

\* C7: after Read(buf, off) with off >= 0, buf[k] = (header ++ payload)[off + k]
\* for 0 <= k < min(L, max(0, H + P - off)) and every other byte of buf is as
\* it was.
C7_ReadCopiesStream ==
    (rd.called /\ off >= 0) =>
        LET stream == node.song.tag \o node.song.data
            n      == Delivered(Len(dest), off, Len(stream))
        IN  /\ ~rd.panic
            /\ \A k \in 0..(Len(dest) - 1) :
                 dest[k + 1] = IF k < n THEN stream[off + k + 1] ELSE Fill

\* A two-byte read at the last header byte returned it and the first payload byte.
C7_Witness ==
    /\ rd.called /\ Len(node.song.tag) = MaxTagLen /\ Len(node.song.data) >= 1
    /\ off = Len(node.song.tag) - 1
    /\ dest = << node.song.tag[Len(node.song.tag)], node.song.data[1] >>

\* C8: Getattr on a song node reports Size(), the length of the tag header
\* plus the length of the audio payload.
C8_GetattrReportsSize ==
    attr.set =>
        /\ attr.Size = Len(node.song.tag) + Len(node.song.data)
        /\ attr.Size = Size(node.song)

\* Getattr ran on a node with a header and a payload.
C8_Witness ==
    /\ attr.set /\ Len(node.song.tag) = MaxTagLen /\ Len(node.song.data) = MaxDataLen
    /\ attr.Size = MaxTagLen + MaxDataLen

\* C9 (as claimed): Song.Read returns normally for every Song, every buffer
\* length and every value of its int64 offset.
C9_ReadNeverFails == rd.called => ~rd.panic

\* What holds of C9: a read at an offset >= 0 returns normally.
C9_ReadAtNonNegativeOffset == (rd.called /\ off >= 0) => ~rd.panic
\* ------------------------------------------- substituted Tagger and Pather
\* frames is what the tagger tg is to return for idx.
IsTagOf(frames, tg, idx) ==
    CASE tg.fn = "RepeatedLetters.Tag" ->
            /\ Len(frames) = 4
            /\ CarriesFields(Song(EncodeTag(frames), << >>), idx)
      [] tg.fn = "tagF" ->
            /\ GetText(frames, TPE1) = CustomArtist
            /\ GetText(frames, TALB) = CustomAlbum
            /\ GetText(frames, TIT2) = CustomTitle
            /\ GetText(frames, TRCK) = << >>
      [] tg.fn = "wantTag" -> frames = NewEmptyTag
      [] OTHER -> Len(frames) = 1 /\ DecimalValue(GetText(frames, TIT2)) = idx

\* path is what the pather pf is to return for idx and the tag frames.
IsPathOf(path, pf, idx, frames) ==
    CASE pf = "ArtistAlbumTitle" ->
            path = pathJoin(<< GetText(frames, TPE1), GetText(frames, TALB),
                               GetText(frames, TIT2) >>) \o << ".", "m", "p", "3" >>
      [] pf = "abc" -> path = << "a", "b", "c", ".", "m", "p", "3" >>
      [] OTHER ->
            /\ Len(path) >= 5 + Len(GetText(frames, TIT2))
            /\ \E k \in 1..Len(path) :
                 /\ DecimalValue(SubSeq(path, 1, k - 1)) = idx
                 /\ path[k] = "-"
                 /\ SubSeq(path, k + 1, Len(path)) =
                        GetText(frames, TIT2) \o << ".", "m", "p", "3" >>

\* C10: with any Tagger and Pather set on the library, PathAt(idx) for idx in
\* range is Pather(idx, t) for the tag t that Tagger(idx) returned for that
\* same idx, and SongAt(idx) is a Song whose header encodes Tagger(idx).
C10_SubstitutedFunctions ==
    (pkg = "part_001" /\ call.op # "-" /\ InRange(call.idx)) =>
        /\ ret.kind = "ok"
        /\ ret.from = [fn |-> lib.Tagger.fn, idx |-> call.idx]
        /\ IsTagOf(ret.tag, lib.Tagger, call.idx)
        /\ call.op = "PathAt" => IsPathOf(ret.path, lib.Pather, call.idx, ret.tag)
        /\ call.op = "SongAt" =>
             /\ ParseTag(ret.song.tag) = ret.tag
             /\ ret.song.data = lib.golden

\* PathAt ran with a substituted tagger and a substituted pather that both
\* depend on the index.
C10_Witness ==
    /\ pkg = "part_001" /\ call.op = "PathAt" /\ call.idx = 12 /\ ret.kind = "ok"
    /\ lib.Tagger.fn = "indexTag" /\ lib.Pather = "indexTitle"
    /\ ret.path = << "1", "2", "-", "1", "2", ".", "m", "p", "3" >>

\* ------------------------------------------------- mounting: root.OnAdd
\* The length of s up to and including its last slash (0 without a slash).
RECURSIVE LastSlash(_)
LastSlash(s) ==
    IF s = << >> THEN 0
    ELSE IF s[Len(s)] = "/" THEN Len(s)
    ELSE LastSlash(SubSeq(s, 1, Len(s) - 1))

\* path.Split(location): dir ends with the last slash, file follows it.
pathSplit(location) ==
    [dir  |-> SubSeq(location, 1, LastSlash(location)),
     file |-> SubSeq(location, LastSlash(location) + 1, Len(location))]

\* strings.Split(s, "/"): the pieces between the slashes, empty ones included.
RECURSIVE stringsSplit(_)
stringsSplit(s) ==
    IF \A k \in 1..Len(s) : s[k] # "/" THEN << s >>
    ELSE LET k == CHOOSE n \in 1..Len(s) :
                      s[n] = "/" /\ \A m \in 1..(n - 1) : s[m] # "/"
         IN  << SubSeq(s, 1, k - 1) >> \o stringsSplit(SubSeq(s, k + 1, Len(s)))

\* An fs.Inode is named by its position in root.inodes, the order of creation;
\* position 1 is the root's own Inode, whose number is 1. 0 stands for nil.
S_IFDIR == "S_IFDIR"
S_IFREG == "S_IFREG"
RootInode == 1
NewRoot ==
    [inodes |-> << [Ino |-> 1, Mode |-> S_IFDIR, song |-> ZeroSong] >>,
     children |-> { }, nextInodeInit |-> FALSE, nextInodeIDRaw |-> 0]

\* The first identifier the counter is set to, before its first increment.
FirstNodeID == 2

\* nextInodeID that hands out the counter without advancing it.
nextInodeIDStuck(r) ==
    LET raw == IF r.nextInodeInit THEN r.nextInodeIDRaw ELSE FirstNodeID
    IN  [r   |-> [r EXCEPT !.nextInodeInit = TRUE, !.nextInodeIDRaw = raw],
         out |-> raw]

\* nextInodeID that advances the counter by two.
nextInodeIDSkip(r) ==
    LET raw == IF r.nextInodeInit THEN r.nextInodeIDRaw ELSE FirstNodeID
    IN  [r   |-> [r EXCEPT !.nextInodeInit = TRUE, !.nextInodeIDRaw = raw + 2],
         out |-> raw + 2]

\* func (r *root) nextInodeID() (out uint64), called by one goroutine: the
\* Once sets the counter to 2 on the first call, and the counter plus one is
\* stored and returned.
nextInodeID(r) ==
    LET raw == IF r.nextInodeInit THEN r.nextInodeIDRaw ELSE FirstNodeID
    IN  [r   |-> [r EXCEPT !.nextInodeInit = TRUE, !.nextInodeIDRaw = raw + 1],
         out |-> raw + 1]

\* GetChild that finds no child, whatever the node holds.
GetChildNil(r, wd, component) == 0

\* wd.GetChild(component): the child of that name, or nil.
GetChild(r, wd, component) ==
    IF \E e \in r.children : e.parent = wd /\ e.name = component
    THEN (CHOOSE e \in r.children : e.parent = wd /\ e.name = component).child
    ELSE 0

\* wd.NewPersistentInode(ctx, ops, fs.StableAttr{Mode, Ino}): a new Inode.
NewPersistentInode(r, mode, ino, sng) ==
    [r   |-> [r EXCEPT !.inodes = Append(@, [Ino |-> ino, Mode |-> mode, song |-> sng])],
     obj |-> Len(r.inodes) + 1]

\* wd.AddChild(name, ch, true): ch takes the place of any child of that name.
AddChild(r, wd, nm, ch) ==
    [r EXCEPT !.children =
        { e \in @ : ~(e.parent = wd /\ e.name = nm) }
            \cup { [parent |-> wd, name |-> nm, child |-> ch] }]

\* The loop of OnAdd over strings.Split(dir, "/"), from the node wd.
RECURSIVE walkDir(_, _, _)
walkDir(r, wd, comps) ==
    IF comps = << >> THEN [r |-> r, wd |-> wd]
    ELSE LET component == Head(comps) IN
         IF component = << >> THEN walkDir(r, wd, Tail(comps))
         ELSE LET cur == GetChild(r, wd, component) IN
              IF cur # 0 THEN walkDir(r, cur, Tail(comps))
              ELSE LET id   == nextInodeID(r)
                       made == NewPersistentInode(id.r, S_IFDIR, id.out, ZeroSong)
                   IN  walkDir(AddChild(made.r, wd, component, made.obj), made.obj,
                               Tail(comps))

\* The libraries that are mounted: that of New, that of New with Tracks set
\* (lib.Tracks = 20_000 in TestSmallUniqueInodes, --library_size in main), and
\* those whose other fields the caller has set too.
MountLibs(g) ==
    IF g = "library.go"
    THEN { New(data) : data \in GoldenSet }
         \cup { [New(data) EXCEPT !.Tracks = n] :
                  n \in 0..MaxTracks, data \in GoldenSet }
         \cup { [Tracks |-> n, TracksPerAlbum |-> tpa, AlbumsPerArtist |-> apa,
                 MinPathLength |-> mpl, golden |-> data] :
                  n \in TrackCounts, tpa \in 1..MaxTracksPerAlbum,
                  apa \in 1..MaxAlbumsPerArtist, mpl \in 3..MaxMinPathLength,
                  data \in GoldenSet }
    ELSE { RL_New(data) : data \in GoldenSet }
         \cup { [RL_New(data) EXCEPT !.Tracks = n] :
                  n \in 0..MaxTracks, data \in GoldenSet }
         \cup { [Tracks |-> n, Tagger |-> tg, Pather |-> pf, golden |-> data] :
                  n \in TrackCounts, tg \in Taggers, pf \in Pathers,
                  data \in GoldenSet }

\* filesystem.Mount(lib, dir, options): fs.Mount adds the root, whose OnAdd
\* then runs.
MountInit ==
    /\ ord = 0 /\ enc = NoEnc
    /\ pkg \in { "library.go", "part_001" }
    /\ lib \in MountLibs(pkg)
    /\ pc = "set" /\ call = NoCall /\ ret = NoRet
    /\ node = [song |-> ZeroSong] /\ dest = << >> /\ off = 0
    /\ rd = NoRead /\ attr = NoAttr
    /\ root = NewRoot
    /\ mnt = [pc |-> "OnAdd", i |-> 0, why |-> NoWhy]
    /\ pad = NoPad /\ gold = NoGold /\ conc = NoConc /\ ids = NoIds

\* One pass of the loop of OnAdd, for i := mnt.i.
OnAddTrack ==
    /\ mnt.pc = "OnAdd" /\ mnt.i < lib.Tracks
    /\ LET location == LibPathAt(mnt.i)
           lSong    == LibSongAt(mnt.i)
       IN  IF location.kind = "panic"
           THEN mnt' = [mnt EXCEPT !.pc = "panic", !.why = location.why] /\ UNCHANGED root
           ELSE IF location.kind = "error"
           THEN mnt' = [mnt EXCEPT !.pc = "fatal", !.why = location.why] /\ UNCHANGED root
           ELSE IF lSong.kind = "panic"
           THEN mnt' = [mnt EXCEPT !.pc = "panic", !.why = lSong.why] /\ UNCHANGED root
           ELSE IF lSong.kind = "error"
           THEN mnt' = [mnt EXCEPT !.pc = "fatal", !.why = lSong.why] /\ UNCHANGED root
           ELSE LET sp   == pathSplit(location.path)
                    w    == walkDir(root, RootInode, stringsSplit(sp.dir))
                    id   == nextInodeID(w.r)
                    made == NewPersistentInode(id.r, S_IFREG, id.out, lSong.song)
                IN  /\ root' = AddChild(made.r, w.wd, sp.file, made.obj)
                    /\ mnt' = [mnt EXCEPT !.i = @ + 1]
    /\ UNCHANGED <<nameVars, libVars, fsVars, extVars>>

\* The loop of OnAdd ends: i < r.l.Tracks is false.
OnAddReturn ==
    /\ mnt.pc = "OnAdd" /\ ~(mnt.i < lib.Tracks)
    /\ mnt' = [mnt EXCEPT !.pc = "mounted"]
    /\ UNCHANGED <<nameVars, libVars, fsVars, extVars, root>>

MountNext == OnAddTrack \/ OnAddReturn

MountSpec == MountInit /\ [][MountNext]_vars

\* ------------------------------------------------ the materialized tree
\* The non-empty components of a path.
Components(path) == SelectSeq(stringsSplit(path), LAMBDA c : c # << >>)

\* The node reached from wd along comps, or nil.
RECURSIVE Lookup(_, _, _)
Lookup(r, wd, comps) ==
    IF comps = << >> \/ wd = 0 THEN wd
    ELSE Lookup(r, GetChild(r, wd, Head(comps)), Tail(comps))

\* The leaf of track idx, and the node it is a child of.
LeafOf(idx) == Lookup(root, RootInode, Components(LibPathAt(idx).path))
ParentOf(n) == (CHOOSE e \in root.children : e.child = n).parent

Leaves == { e \in root.children : root.inodes[e.child].Mode = S_IFREG }
Dirs == { k \in 2..Len(root.inodes) : root.inodes[k].Mode = S_IFDIR }

\* The tree is the library: as many leaves as tracks, the path of every
\* track leads to a leaf holding its song, and every leaf is such a one.
TreeIsLibrary ==
    LET reached == { LeafOf(idx) : idx \in 0..(lib.Tracks - 1) } IN
    /\ Cardinality(Leaves) = lib.Tracks
    /\ \A idx \in 0..(lib.Tracks - 1) :
         /\ LibPathAt(idx).kind = "ok" /\ LibSongAt(idx).kind = "ok"
         /\ LeafOf(idx) # 0
         /\ root.inodes[LeafOf(idx)].Mode = S_IFREG
         /\ root.inodes[LeafOf(idx)].song = LibSongAt(idx).song
    /\ \A e \in Leaves : e.child \in reached

OnAddMaterializes ==
    DefaultFunctions =>
        /\ mnt.pc \notin { "panic", "fatal" }
        /\ mnt.pc = "mounted" => TreeIsLibrary

\* C11 (as claimed): root.OnAdd of a library of N tracks with the default
\* functions completes, and the tree then has exactly N leaves, the
\* components of PathAt(idx) lead from the root to a leaf holding SongAt(idx)
\* for every idx in [0, N), and there is no other leaf.
C11_OnAddMaterializes == OnAddMaterializes

\* The same statement for the generation of part_001 alone, which holds.
RL_OnAddMaterializes == pkg = "part_001" => OnAddMaterializes

\* The default library of part_001 is mounted, all 1000 tracks of it.
RL_OnAddMaterializesSeen ==
    /\ pkg = "part_001" /\ DefaultFunctions /\ mnt.pc = "mounted"
    /\ lib.Tracks = 1000 /\ Cardinality(Leaves) = 1000

\* The identifiers of the nodes created so far, in order of creation.
Issued == [k \in 1..(Len(root.inodes) - 1) |-> root.inodes[k + 1].Ino]

\* C12: in every state of root.OnAdd the identifiers assigned so far are
\* none of 0 and 1, strictly increasing in order of creation, hence pairwise
\* distinct, and none exceeds the counter, so that none is issued again.
C12_IdsDistinctIncreasing ==
    /\ \A k \in 1..Len(Issued) :
         /\ Issued[k] \notin { 0, 1 }
         /\ k > 1 => Issued[k - 1] < Issued[k]
         /\ root.nextInodeInit /\ Issued[k] <= root.nextInodeIDRaw
    /\ Cardinality({ Issued[k] : k \in 1..Len(Issued) }) = Len(Issued)

\* A whole library is mounted with artist, album and song nodes.
C12_Witness ==
    /\ mnt.pc = "mounted" /\ lib.Tracks = MaxTracks /\ DefaultFunctions
    /\ Len(Issued) > MaxTracks + 2

\* ceil(a / b) for b >= 1.
Ceil(a, b) == (a + b - 1) \div b

\* The nodes of a library of n tracks in albums of t tracks and artists of a
\* albums: n songs, ceil(n/t) albums and ceil(n/(t*a)) artists.
NodeCount(n, t, a) == n + Ceil(n, t) + Ceil(n, t * a)

\* The largest 32-bit signed integer: an identifier up to it fits in 32 bits.
MaxInt32 == 2147483647

\* C13 (amended): with the default functions and shape T >= 1, A >= 1, every
\* identifier issued for a library of N >= 1 tracks is at most
\* 2 + N + ceil(N/T) + ceil(N/(T*A)), hence at most 3N + 2, which is below
\* 2^31 for every N up to 715,827,881; with the default shape (10, 3) and
\* N >= 4 it is at most 2N, and 2 + the node count of N = 20,000 is at most
\* 40,000.
C13_IdsWithinNodeCount ==
    /\ \A k \in 1..Len(Issued) :
         /\ Issued[k] <= MaxInt32
         /\ (lib.Tracks >= 1 /\ DefaultFunctions) =>
              /\ Issued[k] <= FirstNodeID + NodeCount(lib.Tracks, ShapeT, ShapeA)
              /\ Issued[k] <= (3 * lib.Tracks) + FirstNodeID
         /\ (lib.Tracks >= 4 /\ DefaultFunctions /\ ShapeT = 10 /\ ShapeA = 3) =>
              Issued[k] <= 2 * lib.Tracks
    /\ (3 * 715827881) + FirstNodeID <= MaxInt32
    /\ FirstNodeID + NodeCount(20000, 10, 3) <= 2 * 20000

\* C13 (as claimed): every identifier issued for a library of N >= 1 tracks
\* is less than 2N + 2.
C13_IdsBelowTwiceTracks ==
    lib.Tracks >= 1 =>
        \A k \in 1..Len(Issued) : Issued[k] < (2 * lib.Tracks) + FirstNodeID

\* The library of New with Tracks set to 4 is mounted: an artist, an album
\* and four songs, and the last identifier is 2N.
C13_Witness ==
    /\ mnt.pc = "mounted" /\ DefaultFunctions
    /\ lib.Tracks = 4 /\ ShapeT = 10 /\ ShapeA = 3
    /\ Len(Issued) = 6 /\ Issued[Len(Issued)] = 2 * lib.Tracks

\* With Tracks set to 3 the last identifier is 7, above 2N: the bound by 2N
\* of the default shape begins at N = 4.
IdsAboveTwiceThreeTracks ==
    /\ mnt.pc = "mounted" /\ DefaultFunctions
    /\ lib.Tracks = 3 /\ ShapeT = 10 /\ ShapeA = 3
    /\ Issued[Len(Issued)] > 2 * lib.Tracks

\* A library of one-track albums and one-album artists is mounted, and its
\* last identifier is 3N + 2.
IdsReachThriceTracks ==
    /\ mnt.pc = "mounted" /\ pkg = "part_001" /\ DefaultFunctions
    /\ lib.Tracks = MaxTracks /\ ShapeT = 1 /\ ShapeA = 1
    /\ Issued[Len(Issued)] = (3 * MaxTracks) + FirstNodeID

\* The tracks added before track i that OnAdd is compared with.
Earlier(i) == { j \in 0..(i - 1) : j >= i - (MaxTracks + 1) }

SameDir(j, k) ==
    /\ LibPathAt(j).kind = "ok" /\ LibPathAt(k).kind = "ok"
    /\ pathSplit(LibPathAt(j).path).dir = pathSplit(LibPathAt(k).path).dir

\* Every directory node ever created is the child of exactly one node, no
\* node has two children of one name, and the track added last has the
\* parent of every earlier track of the same directory.
DirsAreShared ==
    /\ \A k \in Dirs : Cardinality({ e \in root.children : e.child = k }) = 1
    /\ Cardinality({ << e.parent, e.name >> : e \in root.children })
         = Cardinality(root.children)
    /\ (mnt.pc = "OnAdd" /\ mnt.i >= 1 /\ DefaultFunctions) =>
         \A j \in Earlier(mnt.i - 1) :
            SameDir(j, mnt.i - 1) =>
                ParentOf(LeafOf(j)) = ParentOf(LeafOf(mnt.i - 1))

\* A pass of OnAdd keeps every directory filed where it was, and creates
\* one node only, the song, when an earlier track has the same directory.
DirsAreReused ==
    [][ mnt'.i = mnt.i + 1 =>
          /\ \A e \in root.children :
               root.inodes[e.child].Mode = S_IFDIR => e \in root'.children
          /\ (\E j \in Earlier(mnt.i) : SameDir(j, mnt.i)) =>
               /\ Len(root'.inodes) = Len(root.inodes) + 1
               /\ root'.nextInodeIDRaw = root.nextInodeIDRaw + 1 ]_vars

\* C14: during root.OnAdd at most one directory node is ever created for a
\* parent and a name; a later track with the same artist and album reuses
\* the nodes there are, which are neither replaced nor duplicated, so that
\* both tracks are children of the identical album node and no identifier is
\* consumed for it.
C14_DirsCreatedOnce == []DirsAreShared /\ DirsAreReused

\* Two tracks of one album have been added: one artist, one album, two songs.
C14_Witness ==
    /\ mnt.pc = "OnAdd" /\ mnt.i = 2 /\ DefaultFunctions /\ ShapeT >= 2
    /\ SameDir(0, 1)
    /\ ParentOf(LeafOf(0)) = ParentOf(LeafOf(1))
    /\ Len(root.inodes) = 5

\* ------------------------------------------------- the padded names alone
\* A library of library.go with the given MinPathLength, and a tagger of
\* part_001 with the given MinComponentLength.
PadLibrary(mpl) ==
    [Tracks |-> 1, TracksPerAlbum |-> 10, AlbumsPerArtist |-> 3,
     MinPathLength |-> mpl, golden |-> << >>]
PadTagger(mcl) == RepeatedLetters(10, 3, mcl)

PadInit ==
    /\ ord = 0 /\ enc = NoEnc
    /\ pkg = "-" /\ lib = New(<< >>) /\ pc = "-" /\ call = NoCall /\ ret = NoRet
    /\ node = [song |-> ZeroSong] /\ dest = << >> /\ off = 0
    /\ rd = NoRead /\ attr = NoAttr
    /\ root = NoRoot /\ mnt = NoMount
    /\ \E i \in 0..MaxPadOrdinal, mpl \in 0..MaxMinPathLength,
          mcl \in 0..MaxMinComponentLength :
         pad = [called |-> FALSE, i |-> i, MinPathLength |-> mpl,
                MinComponentLength |-> mcl,
                old |-> [panic |-> FALSE, why |-> NoWhy, s |-> << >>],
                new |-> [panic |-> FALSE, why |-> NoWhy, s |-> << >>],
                path |-> NoRet]
    /\ gold = NoGold /\ conc = NoConc /\ ids = NoIds

\* l.name(i) of library.go and a.name(i) of part_001.
CallName ==
    /\ ~pad.called
    /\ pad' = [pad EXCEPT !.called = TRUE,
                          !.old = name(PadLibrary(pad.MinPathLength), pad.i),
                          !.new = RL_name(PadTagger(pad.MinComponentLength), pad.i)]
    /\ UNCHANGED <<nameVars, libVars, fsVars, mntVars, gold, conc, ids>>

\* l.PathAt(0) of the library of library.go with that MinPathLength.
CallPathAtZero ==
    /\ pad.path = NoRet
    /\ pad' = [pad EXCEPT !.path = PathAt(PadLibrary(pad.MinPathLength), 0)]
    /\ UNCHANGED <<nameVars, libVars, fsVars, mntVars, gold, conc, ids>>

PadNext == CallName \/ CallPathAtZero

PadSpec == PadInit /\ [][PadNext]_vars

\* C15: for a fixed minimum length the padded name of library.go and that of
\* part_001 are injective: an ordinal j whose padded name is the one returned
\* for i is i itself.
C15_PaddedNameInjective ==
    pad.called =>
        \A j \in 0..MaxPadOrdinal :
            /\ (~pad.old.panic /\ ~name(PadLibrary(pad.MinPathLength), j).panic
                /\ name(PadLibrary(pad.MinPathLength), j).s = pad.old.s) => j = pad.i
            /\ (~pad.new.panic /\ ~RL_name(PadTagger(pad.MinComponentLength), j).panic
                /\ RL_name(PadTagger(pad.MinComponentLength), j).s = pad.new.s) => j = pad.i

\* "A" doubled is returned for ordinal 0, the string "AA" is the unpadded
\* name of ordinal 26, and the padded name of 26 is another.
C15_Witness ==
    /\ pad.called /\ pad.i = 0 /\ pad.MinComponentLength = 2 /\ pad.MinPathLength = 4
    /\ pad.new.s = << "A", "A" >> /\ pad.old.s = << "A", "A" >>
    /\ RL_name(PadTagger(0), 26).s = << "A", "A" >>
    /\ RL_name(PadTagger(2), 26).s = << "A", "A", "A", "A" >>

\* s is t repeated r times.
IsRepeated(s, t, r) ==
    /\ Len(s) = r * Len(t)
    /\ \A k \in 1..Len(s) : s[k] = t[((k - 1) % Len(t)) + 1]

\* ceil(MinPathLength / 3), with 0 read as 3: the least r with 3r no less.
PadR(mpl) ==
    IF mpl = 0 THEN 1
    ELSE CHOOSE r \in 0..mpl : 3 * r >= mpl /\ 3 * (r - 1) < mpl

\* C19: a name library.go generates is letterName(ordinal) repeated
\* r = ceil(MinPathLength / 3) times, MinPathLength = 0 counting as 3; with
\* MinPathLength = 4 track 0 is "AA/AA/AA.mp3" and "AB" becomes "ABAB"; and
\* for MinPathLength >= 3 the three components of a path have at least
\* MinPathLength letters.
C19_NameRepeatsRoundedUp ==
    /\ (pad.called /\ ~pad.old.panic) =>
         /\ IsRepeated(pad.old.s, letterName(pad.i).s, PadR(pad.MinPathLength))
         /\ (pad.MinPathLength = 4 /\ letterName(pad.i).s = << "A", "B" >>) =>
              pad.old.s = << "A", "B", "A", "B" >>
         /\ pad.MinPathLength = 0 => pad.old.s = letterName(pad.i).s
    /\ pad.path.kind = "ok" =>
         /\ pad.MinPathLength = 4 =>
              pad.path.path = << "A", "A", "/", "A", "A", "/", "A", "A", ".", "m", "p", "3" >>
         /\ pad.MinPathLength >= 3 =>
              Len(SelectSeq(pad.path.path, LAMBDA c : c \in { letters[k] : k \in 1..26 }))
                  >= pad.MinPathLength

\* With MinPathLength = 4 the name "AB" was doubled, and track 0 has its path.
C19_Witness ==
    /\ pad.called /\ pad.MinPathLength = 4 /\ ~pad.old.panic
    /\ letterName(pad.i).s = << "A", "B" >>
    /\ pad.old.s = << "A", "B", "A", "B" >>
    /\ pad.path.kind = "ok"

\* ------------------------------------------------------------ library.New
\* The golden io.ReadSeeker: its bytes, what id3v2.ParseReader makes of its
\* header ("ok" with header.Size() = size, or "malformed"), and whether Seek
\* and ReadAll fail on it.
GoldenBytes == { "h", "d" }
GoldenSources ==
    [bytes : SeqsUpTo(GoldenBytes, MaxGoldenLen), parse : { "ok", "malformed" },
     size : 0..MaxHeaderSize, seek : { "ok", "fail" }, read : { "ok", "fail" }]

NoLibrary == [Tracks |-> 0]
ParseError == "failed to parse id3v2 header"
SeekError == "seek failed"
ReadError == "read failed"

\* What ioutil.ReadAll returns after golden.Seek(offset, io.SeekStart).
ReadAllFrom(g, offset) == SubSeq(g.bytes, offset + 1, Len(g.bytes))

\* New without the seek back to the end of the header: the parser having
\* read the whole source, nothing is left to read.
NewLibraryNoSeek(p, g) ==
    IF g.parse # "ok" THEN [err |-> ParseError, lib |-> NoLibrary]
    ELSE IF g.read # "ok" THEN [err |-> ReadError, lib |-> NoLibrary]
    ELSE [err |-> "nil",
          lib |-> IF p = "library.go" THEN New(ReadAllFrom(g, Len(g.bytes)))
                  ELSE RL_New(ReadAllFrom(g, Len(g.bytes)))]

\* func New(golden io.ReadSeeker) (*Library, error), of either generation.
NewLibrary(p, g) ==
    IF g.parse # "ok" THEN [err |-> ParseError, lib |-> NoLibrary]
    ELSE IF g.seek # "ok" THEN [err |-> SeekError, lib |-> NoLibrary]
    ELSE IF g.read # "ok" THEN [err |-> ReadError, lib |-> NoLibrary]
    ELSE [err |-> "nil",
          lib |-> IF p = "library.go" THEN New(ReadAllFrom(g, g.size))
                  ELSE RL_New(ReadAllFrom(g, g.size))]

NewInit ==
    /\ ord = 0 /\ enc = NoEnc
    /\ pkg \in { "library.go", "part_001" }
    /\ lib = NoLibrary /\ pc = "-" /\ call = NoCall /\ ret = NoRet
    /\ node = [song |-> ZeroSong] /\ dest = << >> /\ off = 0
    /\ rd = NoRead /\ attr = NoAttr
    /\ root = NoRoot /\ mnt = NoMount /\ pad = NoPad
    /\ \E g \in GoldenSources : gold = [called |-> FALSE, src |-> g, err |-> "-"]
    /\ conc = NoConc /\ ids = NoIds

\* lib, err := library.New(golden)
CallNew ==
    /\ ~gold.called
    /\ LET r == NewLibrary(pkg, gold.src) IN
         /\ gold' = [gold EXCEPT !.called = TRUE, !.err = r.err]
         /\ lib' = r.lib
         /\ pc' = IF r.err = "nil" THEN "new" ELSE "-"
    /\ UNCHANGED <<nameVars, fsVars, mntVars, pkg, call, ret, pad, conc, ids>>

NewNext == CallNew

NewSpec == NewInit /\ [][NewNext]_vars

\* C16: New returns an error and no Library when the header of the golden
\* source cannot be parsed or the seek past it or the read of the rest
\* fails; otherwise it returns, without error, a Library whose payload is the
\* source bytes from offset header size to the end, with 1000 tracks, 10
\* tracks per album and 3 albums per artist.
C16_NewFailsOrStripsHeader ==
    gold.called =>
        LET g == gold.src
            failed == g.parse = "malformed" \/ g.seek = "fail" \/ g.read = "fail"
        IN  /\ failed => (gold.err # "nil" /\ lib = NoLibrary)
            /\ g.parse = "malformed" => gold.err = ParseError
            /\ ~failed =>
                 /\ gold.err = "nil"
                 /\ Len(lib.golden) = Max(0, Len(g.bytes) - g.size)
                 /\ \A k \in 1..Len(lib.golden) : lib.golden[k] = g.bytes[g.size + k]
                 /\ lib.Tracks = 1000
                 /\ (IF pkg = "library.go" THEN lib.TracksPerAlbum
                     ELSE lib.Tagger.TracksPerAlbum) = 10
                 /\ (IF pkg = "library.go" THEN lib.AlbumsPerArtist
                     ELSE lib.Tagger.AlbumsPerArtist) = 3

\* New stripped a two-byte header off a three-byte source.
C16_Witness ==
    /\ gold.called /\ gold.err = "nil"
    /\ gold.src.bytes = << "h", "h", "d" >> /\ gold.src.size = 2
    /\ lib.golden = << "d" >> /\ lib.Tracks = 1000

\* ------------------------------------- what a read returns to the transport
\* C18 (as claimed): a read of a song node with a buffer of length L at
\* offset off >= 0 returns the bytes [off, min(off + L, Size())) of
\* header ++ payload, a result of length min(L, max(0, Size() - off)), and so
\* a result of length zero at off >= Size().
C18_ReadReturnsRange ==
    (rd.called /\ off >= 0 /\ ~rd.panic) =>
        LET stream == node.song.tag \o node.song.data
            n      == Delivered(Len(dest), off, Size(node.song))
        IN  /\ Len(rd.result) = n
            /\ \A k \in 1..n : rd.result[k] = stream[off + k]
            /\ off >= Size(node.song) => rd.result = << >>

\* What song.Read returns: the whole destination buffer, all L bytes of it,
\* whatever Song.Read copied into it.
ReadReturnsWholeBuffer ==
    (rd.called /\ ~rd.panic) => (rd.result = dest /\ Len(rd.result) = Len(dest))

\* --------------------------------------- concurrent calls on one Library
\* Byte slices share backing arrays: conc.heap is the sequence of the arrays
\* allocated so far, a slice being named by the position of its array.
\* Array 1 backs l.golden; SongAt allocates the array of its bytes.Buffer.
Goroutines == { "g1", "g2" }
GoldenArray == 1

\* The library the goroutines share, of either generation.
ConcLibrary(p, data) ==
    IF p = "library.go"
    THEN [Tracks |-> MaxConcTracks, TracksPerAlbum |-> 1, AlbumsPerArtist |-> 1,
          MinPathLength |-> 3, golden |-> data]
    ELSE [Tracks |-> MaxConcTracks, Tagger |-> RepeatedLetters(1, 1, 0),
          Pather |-> "ArtistAlbumTitle", golden |-> data]

\* What a goroutine does: PathAt(idx), or SongAt(idx) followed by Size() and
\* Read(buf, off) on the Song, with buf its own buffer of length len. where
\* says how off lies to the header: at its start, on its last byte, right
\* after it, or at the end of the song.
Scripts ==
    [op : { "PathAt" }, idx : 0..(MaxConcTracks - 1), len : { 0 }, where : { "start" }]
    \cup [op : { "SongAt" }, idx : 0..(MaxConcTracks - 1), len : { 1, MaxBufLen },
          where : { "start", "last", "after", "end" }]

Idle(script) ==
    [script |-> script, pc |-> "go", tag |-> 0, data |-> 0, path |-> << >>,
     size |-> -1, off |-> 0, buf |-> [k \in 1..script.len |-> Fill], read |-> 0]

ConcInit ==
    /\ ord = 0 /\ enc = NoEnc
    /\ pkg \in { "library.go", "part_001" }
    /\ \E data \in GoldenSet :
         /\ lib = ConcLibrary(pkg, data)
         /\ \E scripts \in [Goroutines -> Scripts] :
              conc = [on |-> TRUE, heap |-> << data >>,
                      thr |-> [g \in Goroutines |-> Idle(scripts[g])]]
    /\ pc = "set" /\ call = NoCall /\ ret = NoRet
    /\ node = [song |-> ZeroSong] /\ dest = << >> /\ off = 0
    /\ rd = NoRead /\ attr = NoAttr
    /\ root = NoRoot /\ mnt = NoMount /\ pad = NoPad /\ gold = NoGold
    /\ ids = NoIds

\* The array SongAt's bytes.Buffer writes to: one and the same for all calls.
NewBufferShared(heap) ==
    IF Len(heap) = 1 THEN [heap |-> Append(heap, << >>), at |-> 2]
    ELSE [heap |-> heap, at |-> 2]

\* var buf bytes.Buffer in SongAt: a new array.
NewBuffer(heap) == [heap |-> Append(heap, << >>), at |-> Len(heap) + 1]

\* The offset of the script of g, known once the Song is there.
OffsetOf(t, heap) ==
    CASE t.script.where = "start" -> 0
      [] t.script.where = "last"  -> Len(heap[t.tag]) - 1
      [] t.script.where = "after" -> Len(heap[t.tag])
      [] OTHER                    -> Len(heap[t.tag]) + Len(heap[t.data])

\* l.PathAt(idx), which reads the Library.
go_PathAt(g) ==
    LET t == conc.thr[g] IN
    /\ t.pc = "go" /\ t.script.op = "PathAt"
    /\ conc' = [conc EXCEPT !.thr[g].path = LibPathAt(t.script.idx).path,
                            !.thr[g].pc = "done"]
    /\ UNCHANGED <<nameVars, libVars, fsVars, mntVars, pad, gold, ids>>

\* l.SongAt(idx), up to var buf bytes.Buffer: the index check, the tag.
go_SongAtBuffer(g) ==
    LET t == conc.thr[g] IN
    /\ t.pc = "go" /\ t.script.op = "SongAt"
    /\ LibSongAt(t.script.idx).kind = "ok"
    /\ LET b == NewBuffer(conc.heap) IN
         conc' = [conc EXCEPT !.heap = b.heap, !.thr[g].tag = b.at,
                              !.thr[g].pc = "WriteTo"]
    /\ UNCHANGED <<nameVars, libVars, fsVars, mntVars, pad, gold, ids>>

\* tag.WriteTo(&buf) and return Song{tag: buf.Bytes(), data: l.golden}.
go_SongAtWriteTo(g) ==
    LET t == conc.thr[g] IN
    /\ t.pc = "WriteTo"
    /\ conc' = [conc EXCEPT !.heap[t.tag] = EncodeTag(LibSongAt(t.script.idx).tag),
                            !.thr[g].data = GoldenArray,
                            !.thr[g].pc = "Size"]
    /\ UNCHANGED <<nameVars, libVars, fsVars, mntVars, pad, gold, ids>>

\* s.Size()
go_Size(g) ==
    LET t == conc.thr[g] IN
    /\ t.pc = "Size"
    /\ conc' = [conc EXCEPT !.thr[g].size = Len(conc.heap[t.tag]) + Len(conc.heap[t.data]),
                            !.thr[g].off = OffsetOf(t, conc.heap),
                            !.thr[g].pc = "Read"]
    /\ UNCHANGED <<nameVars, libVars, fsVars, mntVars, pad, gold, ids>>

\* s.Read(buf, off), up to the copy from s.tag.
go_ReadTag(g) ==
    LET t    == conc.thr[g]
        tag  == conc.heap[t.tag]
        data == conc.heap[t.data]
    IN
    /\ t.pc = "Read"
    /\ IF t.off >= Len(tag) + Len(data)
       THEN conc' = [conc EXCEPT !.thr[g].pc = "done"]
       ELSE IF t.off < Len(tag)
       THEN LET first == Copy(t.buf, SliceFrom(tag, t.off).s) IN
            conc' = [conc EXCEPT !.thr[g].buf = first.dst,
                                 !.thr[g].read = first.n,
                                 !.thr[g].off = 0,
                                 !.thr[g].pc = "copy"]
       ELSE conc' = [conc EXCEPT !.thr[g].off = t.off - Len(tag),
                                 !.thr[g].pc = "copy"]
    /\ UNCHANGED <<nameVars, libVars, fsVars, mntVars, pad, gold, ids>>

\* s.Read(buf, off): the closing copy(buf, s.data[off:]), buf being buf[read:].
go_ReadData(g) ==
    LET t    == conc.thr[g]
        data == conc.heap[t.data]
        rest == SubSeq(t.buf, t.read + 1, Len(t.buf))
    IN
    /\ t.pc = "copy"
    /\ conc' = [conc EXCEPT !.thr[g].buf =
                                SubSeq(t.buf, 1, t.read)
                                    \o Copy(rest, SliceFrom(data, t.off).s).dst,
                            !.thr[g].pc = "done"]
    /\ UNCHANGED <<nameVars, libVars, fsVars, mntVars, pad, gold, ids>>

ConcNext ==
    \E g \in Goroutines :
        \/ go_PathAt(g)
        \/ go_SongAtBuffer(g)
        \/ go_SongAtWriteTo(g)
        \/ go_Size(g)
        \/ go_ReadTag(g)
        \/ go_ReadData(g)

ConcSpec == ConcInit /\ [][ConcNext]_vars

\* What the script of a goroutine gives when run alone.
AloneSong(script) == LibSongAt(script.idx).song
AloneOffset(script) ==
    CASE script.where = "start" -> 0
      [] script.where = "last"  -> Len(AloneSong(script).tag) - 1
      [] script.where = "after" -> Len(AloneSong(script).tag)
      [] OTHER                  -> Size(AloneSong(script))

\* Every finished call has the result it has alone.
ResultsAsAlone ==
    \A g \in Goroutines :
        LET t == conc.thr[g] IN
        /\ (t.pc = "done" /\ t.script.op = "PathAt") =>
              t.path = LibPathAt(t.script.idx).path
        /\ (t.script.op = "SongAt" /\ t.pc \in { "Read", "copy", "done" }) =>
              /\ t.size = Size(AloneSong(t.script))
              /\ conc.heap[t.tag] = AloneSong(t.script).tag
        /\ (t.script.op = "SongAt" /\ t.pc = "done") =>
              t.buf = Read(AloneSong(t.script),
                           [k \in 1..t.script.len |-> Fill],
                           AloneOffset(t.script)).buf

\* The payload is the library's, and no two Songs share a header array.
NothingShared ==
    /\ conc.heap[GoldenArray] = lib.golden
    /\ \A g, h \in Goroutines :
         (g # h /\ conc.thr[g].tag # 0) => conc.thr[g].tag # conc.thr[h].tag
    /\ \A g \in Goroutines : conc.thr[g].tag # GoldenArray

\* A step writes neither the Library nor the payload, nor the header of a
\* Song once SongAt has returned it.
NothingWritten ==
    [][ /\ lib' = lib
        /\ conc'.heap[GoldenArray] = conc.heap[GoldenArray]
        /\ \A g \in Goroutines :
             (conc.thr[g].tag # 0
              /\ conc.thr[g].pc \in { "Size", "Read", "copy", "done" }) =>
                 conc'.heap[conc.thr[g].tag] = conc.heap[conc.thr[g].tag] ]_vars

\* C17: under every interleaving of PathAt, SongAt, Size and Read calls of
\* concurrent goroutines on the same or different indices, each Read with
\* its own buffer, every call returns what it returns alone; no step writes
\* the payload, the Library or the header of a Song of another call, and two
\* SongAt calls never share a header array.
C17_CallsDoNotInterfere == [](conc.on => (ResultsAsAlone /\ NothingShared)) /\ NothingWritten

\* Two goroutines have read across the header end of different tracks, the
\* second having built its Song between the first's SongAt and Read.
C17_Witness ==
    /\ conc.on
    /\ conc.thr["g1"].pc = "done" /\ conc.thr["g2"].pc = "done"
    /\ conc.thr["g1"].script = [op |-> "SongAt", idx |-> 0, len |-> MaxBufLen, where |-> "last"]
    /\ conc.thr["g2"].script = [op |-> "SongAt", idx |-> 1, len |-> MaxBufLen, where |-> "last"]
    /\ conc.thr["g1"].tag < conc.thr["g2"].tag
    /\ conc.thr["g1"].buf = << "NUL" >> \o SubSeq(lib.golden, 1, MaxBufLen - 1)

\* ----------------------------------------- concurrent root.nextInodeID
\* ids.once is the sync.Once nextInodeInit: "new", "running" while a
\* goroutine is inside its function, "done" after. ids.raw is the pointer
\* nextInodeIDRaw: nil, or the counter it points to.
IdGoroutines == { "i1", "i2", "i3" }
NilPointer == [nil |-> TRUE, val |-> 0]
NilPanic == "runtime error: invalid memory address or nil pointer dereference"

IdInit ==
    /\ ord = 0 /\ enc = NoEnc
    /\ pkg = "-" /\ lib = New(<< >>) /\ pc = "-" /\ call = NoCall /\ ret = NoRet
    /\ node = [song |-> ZeroSong] /\ dest = << >> /\ off = 0
    /\ rd = NoRead /\ attr = NoAttr
    /\ root = NoRoot /\ mnt = NoMount /\ pad = NoPad /\ gold = NoGold
    /\ conc = NoConc
    /\ \E calls \in [IdGoroutines -> 0..MaxIdCalls] :
         ids = [on |-> TRUE, once |-> "new", raw |-> NilPointer, inits |-> 0,
                panic |-> NoWhy,
                thr |-> [g \in IdGoroutines |->
                           [pc |-> IF calls[g] = 0 THEN "done" ELSE "Do",
                            left |-> calls[g], out |-> << >>]]]

\* Do without the mutex: whoever finds the function not completed runs it.
OnceDoUnlocked(once) == IF once = "done" THEN "skip" ELSE "run"

\* r.nextInodeInit.Do(f): the first caller runs f, a caller arriving while f
\* runs waits for it, a later caller returns at once.
OnceDo(once) ==
    CASE once = "new"     -> "run"
      [] once = "running" -> "wait"
      [] OTHER            -> "skip"

\* nextInodeID: r.nextInodeInit.Do(...) is entered.
id_Do(g) ==
    /\ ids.panic = NoWhy
    /\ ids.thr[g].pc = "Do"
    /\ OnceDo(ids.once) # "wait"
    /\ IF OnceDo(ids.once) = "run"
       THEN ids' = [ids EXCEPT !.once = "running", !.thr[g].pc = "init"]
       ELSE ids' = [ids EXCEPT !.thr[g].pc = "Add"]
    /\ UNCHANGED <<nameVars, libVars, fsVars, mntVars, pad, gold, conc>>

\* The function of the Once: nodeID := uint64(2); r.nextInodeIDRaw = &nodeID.
id_Init(g) ==
    /\ ids.panic = NoWhy
    /\ ids.thr[g].pc = "init"
    /\ ids' = [ids EXCEPT !.raw = [nil |-> FALSE, val |-> FirstNodeID],
                          !.inits = @ + 1,
                          !.once = "done",
                          !.thr[g].pc = "Add"]
    /\ UNCHANGED <<nameVars, libVars, fsVars, mntVars, pad, gold, conc>>

\* return atomic.AddUint64(r.nextInodeIDRaw, 1)
id_Add(g) ==
    /\ ids.panic = NoWhy
    /\ ids.thr[g].pc = "Add"
    /\ IF ids.raw.nil
       THEN ids' = [ids EXCEPT !.panic = NilPanic]
       ELSE ids' = [ids EXCEPT !.raw.val = @ + 1,
                               !.thr[g].out = Append(@, ids.raw.val + 1),
                               !.thr[g].left = @ - 1,
                               !.thr[g].pc = IF ids.thr[g].left > 1 THEN "Do" ELSE "done"]
    /\ UNCHANGED <<nameVars, libVars, fsVars, mntVars, pad, gold, conc>>

IdNext == \E g \in IdGoroutines : id_Do(g) \/ id_Init(g) \/ id_Add(g)

IdSpec == IdInit /\ [][IdNext]_vars

\* The identifiers the goroutines have been returned, as (goroutine, call).
Returned ==
    { c \in IdGoroutines \X (1..MaxIdCalls) : c[2] <= Len(ids.thr[c[1]].out) }

\* C20: when goroutines call root.nextInodeID concurrently, the first call
\* among them, the counter is initialised once, no call panics, any two
\* calls return different values, and the counter has advanced by one for
\* every call returned: no increment is lost.
C20_IdsDistinctUnderConcurrency ==
    ids.on =>
        /\ ids.inits <= 1
        /\ ids.panic = NoWhy
        /\ \A c, d \in Returned :
             c # d => ids.thr[c[1]].out[c[2]] # ids.thr[d[1]].out[d[2]]
        /\ ~ids.raw.nil => ids.raw.val = FirstNodeID + Cardinality(Returned)
        /\ \A c \in Returned : ids.thr[c[1]].out[c[2]] > FirstNodeID

\* Three goroutines have each made all their calls, one of them having waited
\* in Do for another to initialise the counter.
C20_Witness ==
    /\ ids.on /\ ids.inits = 1
    /\ \A g \in IdGoroutines : ids.thr[g].pc = "done" /\ Len(ids.thr[g].out) = MaxIdCalls
    /\ ids.raw.val = FirstNodeID + (3 * MaxIdCalls)
    /\ ids.thr["i1"].out[1] > ids.thr["i2"].out[1]

\* ------------------------------------------- where the identifiers start
\* C21 (as claimed): the identifiers are handed out contiguously from 2: the
\* first node root.OnAdd creates has identifier 2, the k-th has k + 1.
C21_IdsContiguousFromTwo ==
    \A k \in 1..Len(Issued) : Issued[k] = k + 1

\* What holds of C21: the identifiers are contiguous, and start one above the
\* value the counter is set to: the k-th node has identifier k + 2.
IdsContiguousAboveFirst ==
    \A k \in 1..Len(Issued) : Issued[k] = k + FirstNodeID

\* Root.OnAdd has created the artist, the album and the song of track 0.
IdsContiguousAboveFirstSeen ==
    /\ mnt.pc = "OnAdd" /\ mnt.i = 1 /\ DefaultFunctions
    /\ Issued = << 3, 4, 5 >>

\* ------------------------------------------------- the shape of the tree
\* The children of node n of the given mode.
ChildrenOf(n, mode) ==
    { e \in root.children : e.parent = n /\ root.inodes[e.child].Mode = mode }

Artists == { e.child : e \in ChildrenOf(RootInode, S_IFDIR) }
Albums == UNION { { e.child : e \in ChildrenOf(a, S_IFDIR) } : a \in Artists }

\* The tree has ceil(N/(T*A)) artists under the root, ceil(N/T) albums under
\* them and N songs under those, no album with more than T songs and no
\* artist with more than A albums, and has consumed as many identifiers.
TreeHasShape ==
    /\ Cardinality(Artists) = Ceil(lib.Tracks, ShapeT * ShapeA)
    /\ Cardinality(Albums) = Ceil(lib.Tracks, ShapeT)
    /\ Cardinality(Leaves) = lib.Tracks
    /\ \A e \in Leaves : e.parent \in Albums
    /\ Dirs = Artists \cup Albums
    /\ \A a \in Artists : Cardinality(ChildrenOf(a, S_IFDIR)) <= ShapeA
    /\ \A b \in Albums : Cardinality(ChildrenOf(b, S_IFREG)) <= ShapeT
    /\ Len(Issued) = NodeCount(lib.Tracks, ShapeT, ShapeA)
    /\ lib.Tracks > 0 =>
         root.nextInodeIDRaw = FirstNodeID + NodeCount(lib.Tracks, ShapeT, ShapeA)

OnAddShapesTree ==
    (DefaultFunctions /\ ShapeT >= 1 /\ ShapeA >= 1 /\ lib.Tracks >= 0) =>
        /\ mnt.pc \notin { "panic", "fatal" }
        /\ mnt.pc = "mounted" => TreeHasShape

\* C22 (as claimed): with the default functions, T >= 1 tracks per album and
\* A >= 1 albums per artist, root.OnAdd of N tracks completes with
\* ceil(N/(T*A)) artist directories under the root, ceil(N/T) album
\* directories and N leaves at depth 3, having consumed
\* N + ceil(N/T) + ceil(N/(T*A)) identifiers; no album has more than T
\* leaves and no artist more than A albums.
C22_OnAddShapesTree == OnAddShapesTree

\* The same statement for the generation of part_001 alone, which holds.
RL_OnAddShapesTree == pkg = "part_001" => OnAddShapesTree

\* The default library of part_001 is mounted: 34 artists, 100 albums.
RL_OnAddShapesTreeSeen ==
    /\ pkg = "part_001" /\ DefaultFunctions /\ mnt.pc = "mounted"
    /\ lib.Tracks = 1000 /\ Cardinality(Artists) = 34 /\ Cardinality(Albums) = 100

\* ------------------------------------------- letterName of library.go
\* C23 (as claimed): letterName of src/library/library.go returns for every
\* i >= 0: every index letter-1 is within 0..25, and the result is a
\* non-empty string of letters A-Z.
C23_LetterNameTotal ==
    enc.called =>
        /\ ~enc.old.panic
        /\ enc.old.s # << >>
        /\ IsLetterString(enc.old.s)

\* What holds of C23: letterName returns a non-empty string of letters
\* unless i + 1 has a digit 0 in base 26, and panics if it has.
RECURSIVE HasZeroDigit(_)
HasZeroDigit(n) ==
    IF n = 0 THEN FALSE
    ELSE IF n % 26 = 0 THEN TRUE
    ELSE HasZeroDigit(n \div 26)

LetterNameTotalButZeroDigits ==
    enc.called =>
        /\ enc.old.panic <=> HasZeroDigit(ord + 1)
        /\ ~enc.old.panic => (enc.old.s # << >> /\ IsLetterString(enc.old.s))
====
